---- MODULE Spec2Model ----
(***************************************************************************)
(* A model of the application server facade (class App) of the Astro      *)
(* server runtime: route matching, the render of a matched route through  *)
(* the render pipeline, and the 404/500 fallback path.                    *)
(*                                                                         *)
(* Pathnames are sequences of path segments ("/a/b" is <<"a","b">>, "/"   *)
(* is <<>>); a route's `route` string is its sequence of segment patterns. *)
(* The manifest is chosen in Init and is read-only afterwards; one request *)
(* is rendered at a time (App keeps no per-request state between calls).  *)
(* The manifest base is "/" (the configuration default).                  *)
(***************************************************************************)
EXTENDS Integers, Sequences, FiniteSets, TLC

\* ------------------------------------------------------------- bounds
\* At most this many routes in the manifest's route table.
MaxRoutes == 2

\* ------------------------------------------------------------- values

Seg(s) == [k |-> "static", s |-> s]
Spread(s) == [k |-> "spread", s |-> s]
Dynamic(s) == [k |-> "dynamic", s |-> s]

NoRedirect == [destination |-> "", status |-> 0]

PageRoute(pattern, component, prerender) ==
    [pattern |-> pattern, type |-> "page", prerender |-> prerender,
     component |-> component, redirect |-> NoRedirect]

EndpointRoute(pattern, component) ==
    [pattern |-> pattern, type |-> "endpoint", prerender |-> FALSE,
     component |-> component, redirect |-> NoRedirect]

\* A configured redirect: status 0 stands for "no status configured"
\* (the '/from': '/to' form of the redirects config).
RedirectRoute(pattern, destination, status) ==
    [pattern |-> pattern, type |-> "redirect", prerender |-> FALSE,
     component |-> "redirect", redirect |-> [destination |-> destination, status |-> status]]

\* The RouteInfo the manifest holds for a route: the route with its scripts
\* (one inlined in the head, one of the page stage, one external module)
\* and its styles, each named after the route's component.
RouteInfoOf(route) ==
    [routeData |-> route,
     scripts |-> {[stage |-> "head-inline", type |-> "", value |-> route.component],
                  [stage |-> "page", type |-> "", value |-> route.component],
                  [stage |-> "", type |-> "external", value |-> route.component]},
     styles |-> {[type |-> "external", src |-> route.component]}]

\* The routes a manifest may hold, by slot. The slots are in the priority
\* order in which the build writes the route table (static routes first,
\* routes with a spread segment last); a table holds at most one variant
\* of a slot.
Slots ==
    << {PageRoute(<<Seg("404")>>, "404.astro", p) : p \in BOOLEAN},
       {PageRoute(<<Seg("500")>>, "500.astro", p) : p \in BOOLEAN},
       {PageRoute(<<Seg("a")>>, "a.astro", p) : p \in BOOLEAN},
       {RedirectRoute(<<Seg("r")>>, "/test", s) : s \in {0, 302, 307}},
       {EndpointRoute(<<Seg("api")>>, "api.ts")},
       {PageRoute(<<Spread("x"), Seg("404")>>, "x404.astro", TRUE)},
       {PageRoute(<<Spread("slug")>>, "slug.astro", p) : p \in BOOLEAN} >>

RECURSIVE TablesFrom(_, _)
TablesFrom(i, n) ==
    IF i > Len(Slots) THEN {<<>>}
    ELSE TablesFrom(i + 1, n) \cup
         (IF n = 0 THEN {}
          ELSE {<<v>> \o t : v \in Slots[i], t \in TablesFrom(i + 1, n - 1)})

RouteTables == TablesFrom(1, MaxRoutes)

Components(routes) ==
    {routes[i].component : i \in {j \in 1..Len(routes) : routes[j].type # "redirect"}}

\* The set of modules of an SSR manifest: a page map keyed by component, one
\* single page module, or neither.
ModuleSets(routes) ==
    {[kind |-> "pageMap", has |-> Components(routes)]}
    \cup {[kind |-> "pageMap", has |-> Components(routes) \ {c}] : c \in Components(routes)}
    \cup {[kind |-> "pageModule", has |-> {}], [kind |-> "none", has |-> {}]}

\* The public assets of the manifest.
Assets == {<<"logo.png">>}

Manifests ==
    UNION {{[routes |-> t, assets |-> Assets, modules |-> m, base |-> <<>>] :
                m \in ModuleSets(t)} : t \in RouteTables}

\* The requests tried: GET and POST of every pathname, and HEAD of the
\* redirect's.
Pathnames == {<<"a">>, <<"r">>, <<"api">>, <<"missing">>, <<"logo.png">>}

Requests ==
    [pathname : Pathnames, method : {"GET", "POST"}, clientLocals : {"unset"}]
    \cup {[pathname |-> <<"r">>, method |-> "HEAD", clientLocals |-> "unset"]}

\* ---------------------------------------------------------- responses

EmptyBody == <<"empty", "">>
Rendered(component) == <<"rendered", component>>
Explicit(component) == <<"explicit", component>>
Prebuilt(path) == <<"prebuilt", path>>

\* new Response(body, {status, statusText, headers}): a fresh object, without
\* the sent marker. `late` says that the page behind the body stream will
\* call the redirect helper once its output has begun.
Response(body, status, statusText, headers) ==
    [body |-> body, status |-> status, statusText |-> statusText,
     headers |-> headers, sent |-> FALSE, late |-> FALSE]

NoResponse == Response(<<"none", "">>, 0, "", {})

\* headers.get(name): the value, or "" for null.
HeaderGet(headers, name) ==
    IF \E h \in headers : h[1] = name
    THEN (CHOOSE h \in headers : h[1] = name)[2]
    ELSE ""

\* A variant that reserves 404 alone for the fallback.
STATUS_CODES_Only404 == {404}
STATUS_CODES_With302 == {302, 404, 500}

STATUS_CODES == {404, 500}

\* '/' + status, as a pathname.
StatusPath(status) == IF status = 404 THEN <<"404">> ELSE <<"500">>

\* ----------------------------------------------------------- matching

\* route.pattern.test(pathname): static segments are equal, a dynamic
\* segment takes one segment, a spread segment absorbs any number of
\* segments (none included).
RECURSIVE PatternTest(_, _)
PatternTest(pattern, pathname) ==
    IF pattern = <<>> THEN pathname = <<>>
    ELSE IF Head(pattern).k = "static"
         THEN /\ pathname # <<>>
              /\ Head(pathname) = Head(pattern).s
              /\ PatternTest(Tail(pattern), Tail(pathname))
         ELSE IF Head(pattern).k = "dynamic"
         THEN /\ pathname # <<>>
              /\ PatternTest(Tail(pattern), Tail(pathname))
         ELSE \E n \in 0..Len(pathname) :
                 PatternTest(Tail(pattern), SubSeq(pathname, n + 1, Len(pathname)))

\* The comparator of the matcher. A pattern with fewer spread segments is
\* the more specific; of two patterns with as many, the one that is static
\* at the first position where one is static and the other dynamic.
Spreads(pattern) == Cardinality({i \in 1..Len(pattern) : pattern[i].k = "spread"})

Outranks(a, b) ==
    IF Spreads(a) # Spreads(b) THEN Spreads(a) < Spreads(b)
    ELSE \E i \in 1..Len(a) :
            /\ i <= Len(b)
            /\ a[i].k = "static" /\ b[i].k = "dynamic"
            /\ \A j \in 1..(i - 1) : a[j].k = b[j].k

\* A variant of the matcher that takes the first route of the table whose
\* pattern matches.
MatchRoute_First(pathname, routes) ==
    LET hits == {i \in 1..Len(routes) : PatternTest(routes[i].pattern, pathname)}
    IN IF hits = {} THEN 0 ELSE CHOOSE i \in hits : \A j \in hits : i <= j

\* matchRoute(pathname, manifest): of the routes whose pattern matches, one
\* that no other outranks, and of these the one declared first; as an index
\* into the table, 0 for undefined.
MatchRoute(pathname, routes) ==
    LET hits == {i \in 1..Len(routes) : PatternTest(routes[i].pattern, pathname)}
        best == {i \in hits :
                    \A j \in hits : ~Outranks(routes[j].pattern, routes[i].pattern)}
    IN IF hits = {} THEN 0 ELSE CHOOSE i \in best : \A j \in best : i <= j

\* A variant that takes only the route /<status> itself.
RouteEndsWith_Exact(route, status) == route.pattern = <<Seg(StatusPath(status)[1])>>

\* route.endsWith('/' + status)
RouteEndsWith(route, status) ==
    /\ route.pattern # <<>>
    /\ route.pattern[Len(route.pattern)] = Seg(StatusPath(status)[1])

\* ---------------------------------------------------------------- state

VARIABLES
    manifest,     \* #manifest / #manifestData: routes, assets, modules, base
    routeInfo,    \* #routeDataToRouteInfo: the RouteInfo entries of the side table
    pc,           \* where the current App.render call stands
    request,      \* the Request being rendered, with what is attached to it as locals
    locals,       \* the locals argument of the call: "undefined" when none is passed
    supplied,     \* whether the caller passed routeData
    routeData,    \* the route rendered: an index into manifest.routes, 0 for undefined
    result,       \* what tryRenderRoute gave for the matched route
    errArgs,      \* the arguments of the pending #renderError call
    errorRoute,   \* errorRouteData: an index into manifest.routes, 0 for undefined
    fallbackResponse, \* the fallback Response handed to #mergeResponses
    outcome,      \* how App.render ended: the Response returned, or the error thrown
    calls,        \* the tryRenderRoute calls of this render, in order
    events,       \* what this render did, in order
    renderState,  \* the state of the render of the matched route, and of the fallback page
    stream,       \* the body stream of the returned Response
    text          \* what response.text() gave

appVars == <<manifest, routeInfo, pc, request, locals, supplied, routeData, result, errArgs, errorRoute,
             fallbackResponse, outcome, calls, events, renderState, stream, text>>

\* The static build (generatePages and what it calls).
VARIABLES
    build,        \* the project built: config.build.redirects, the route table, the pages
    gpc,          \* where generatePages stands
    cursor,       \* the page of the pages loop and the path of the paths loop
    paths,        \* the paths getPathsForRoute gave for the page at hand
    builtPaths,   \* the Set of paths recorded as built
    inflight,     \* the generatePath calls that have started and not completed
    disk,         \* the files written under the out folder
    routeFacts,   \* what the build recorded on each route: redirect, distURL
    rendered,     \* the tryRenderRoute calls of the build, in order
    writes,       \* the writeFile calls of the build, in order
    buildError,   \* the error generatePages threw, if it did
    previous      \* how the build of the same project with redirects enabled ended

genVars == <<build, gpc, cursor, paths, builtPaths, inflight, disk, routeFacts, rendered,
             writes, buildError, previous>>

\* One renderChild(destination, child) call.
VARIABLES
    child,        \* the child passed to renderChild
    pending,      \* the renderChild calls not yet made, in the order they are awaited
    destination,  \* the chunks written to the destination, each with the child written for
    resolved      \* the promises of the child that have resolved, in the order they did

childVars == <<child, pending, destination, resolved>>

\* One matchRoute(pathname, manifest) call.
VARIABLES
    table,        \* the routes of the manifest, in the order they stand in it
    lookup        \* the pathname looked up and the route matchRoute gave for it

matchVars == <<table, lookup>>

\* One syncInternal(settings, options) call.
VARIABLE sync

\* One NodeApp.render(req, routeData, locals) call.
VARIABLE node

\* One App.removeBase(pathname) call.
VARIABLE removal

\* One handleHotUpdate(ctx, options) call.
VARIABLE hmr

vars == <<appVars, genVars, childVars, matchVars, sync, node, removal, hmr>>

\* What an action of the App, of the build, of renderChild, of matchRoute,
\* of syncInternal or of NodeApp.render leaves alone.
outsideApp == <<genVars, childVars, matchVars, sync, node, removal, hmr>>
outsideBuild == <<appVars, childVars, matchVars, sync, node, removal, hmr>>
outsideChild == <<appVars, genVars, matchVars, sync, node, removal, hmr>>
outsideMatch == <<appVars, genVars, childVars, sync, node, removal, hmr>>
outsideSync == <<appVars, genVars, childVars, matchVars, node, removal, hmr>>
outsideNode == <<appVars, genVars, childVars, matchVars, sync, removal, hmr>>
outsideRemoval == <<appVars, genVars, childVars, matchVars, sync, node, hmr>>
outsideHmr == <<appVars, genVars, childVars, matchVars, sync, node, removal>>

NoRequest == [pathname |-> <<>>, method |-> "", clientLocals |-> "unset"]
NoResult == [kind |-> "none", response |-> NoResponse]
NoErrArgs == [status |-> 0, routeData |-> 0, response |-> NoResponse, hasResponse |-> FALSE]
NoOutcome == [kind |-> "none", response |-> NoResponse, error |-> ""]
Returned(response) == [kind |-> "returned", response |-> response, error |-> ""]
Rejected(error) == [kind |-> "rejected", response |-> NoResponse, error |-> error]
NotStarted == [main |-> "NotStarted", fallback |-> "NotStarted"]

Routes == manifest.routes

\* ------------------------------------------------------------ App helpers

\* removeBase, on segments: a pathname under the base loses the base.
RemoveBase(pathname) ==
    LET base == manifest.base
    IN IF Len(base) <= Len(pathname) /\ SubSeq(pathname, 1, Len(base)) = base
       THEN SubSeq(pathname, Len(base) + 1, Len(pathname))
       ELSE pathname

\* A variant of App.match without the check of the public assets.
Match_NoAssets(req) ==
    LET r == MatchRoute(RemoveBase(req.pathname), Routes)
    IN IF r = 0 \/ Routes[r].prerender THEN 0 ELSE r

\* App.match, as an index into the route table; 0 for undefined.
Match(req) ==
    IF req.pathname \in manifest.assets THEN 0
    ELSE LET r == MatchRoute(RemoveBase(req.pathname), Routes)
         IN IF r = 0 \/ Routes[r].prerender THEN 0 ELSE r

\* this.#routeDataToRouteInfo.get(routeData): the entries found for the route.
RouteInfoGet(route) == {info \in routeInfo : info.routeData = route}

\* createStylesheetElementSet(info.styles)
CreateStylesheetElementSet(styles) ==
    {[props |-> "stylesheet", children |-> st.src] : st \in styles}

\* The scripts of the render context: the head-inline scripts as they are,
\* the scripts without a stage as module script elements.
ContextScripts(scripts) ==
    {[props |-> "", children |-> sc.value] : sc \in {x \in scripts : x.stage = "head-inline"}}
    \cup {[props |-> "module", children |-> sc.value] : sc \in {x \in scripts : x.stage = ""}}

\* #createRenderContext(url, request, routeData, page, status): an endpoint
\* route gets a context without scripts and styles; any other route gets
\* those of its RouteInfo, and reading them off a missing RouteInfo throws.
CreateRenderContext(route) ==
    IF route.type = "endpoint"
    THEN [ok |-> TRUE, scripts |-> {}, styles |-> {}]
    ELSE IF RouteInfoGet(route) = {}
         THEN [ok |-> FALSE, scripts |-> {}, styles |-> {}]
         ELSE LET info == CHOOSE i \in RouteInfoGet(route) : TRUE
              IN [ok |-> TRUE, scripts |-> ContextScripts(info.scripts),
                  styles |-> CreateStylesheetElementSet(info.styles)]

GetDefaultStatusCode(route) ==
    IF RouteEndsWith(route, 404) THEN 404
    ELSE IF RouteEndsWith(route, 500) THEN 500
    ELSE 200

\* A variant of #getModuleForRoute without the case of a redirect route.
GetModuleForRoute_NoRedirect(route) ==
    IF manifest.modules.kind = "pageMap"
    THEN IF route.component \in manifest.modules.has
         THEN [ok |-> TRUE, module |-> route.component, error |-> ""]
         ELSE [ok |-> FALSE, module |-> "", error |-> "UnableToFindComponentInstance"]
    ELSE IF manifest.modules.kind = "pageModule"
         THEN [ok |-> TRUE, module |-> route.component, error |-> ""]
         ELSE [ok |-> FALSE, module |-> "", error |-> "CouldNotFindPageToRender"]

\* #getModuleForRoute: the module loaded, or the error thrown.
GetModuleForRoute(route) ==
    IF route.type = "redirect"
    THEN [ok |-> TRUE, module |-> "RedirectSinglePageBuiltModule", error |-> ""]
    ELSE IF manifest.modules.kind = "pageMap"
         THEN IF route.component \in manifest.modules.has
              THEN [ok |-> TRUE, module |-> route.component, error |-> ""]
              ELSE [ok |-> FALSE, module |-> "", error |-> "UnableToFindComponentInstance"]
         ELSE IF manifest.modules.kind = "pageModule"
              THEN [ok |-> TRUE, module |-> route.component, error |-> ""]
              ELSE [ok |-> FALSE, module |-> "", error |-> "CouldNotFindPageToRender"]

\* A variant of #mergeResponses that always keeps the fallback's status.
MergeResponses_NewStatus(newResponse, oldResponse, hasOld) ==
    IF ~hasOld THEN newResponse
    ELSE [Response(newResponse.body, newResponse.status, oldResponse.statusText,
                   oldResponse.headers)
          EXCEPT !.late = newResponse.late]

\* #mergeResponses(newResponse, oldResponse?)
MergeResponses(newResponse, oldResponse, hasOld) ==
    IF ~hasOld THEN newResponse
    ELSE [Response(newResponse.body,
                   IF oldResponse.status = 200 THEN newResponse.status ELSE oldResponse.status,
                   oldResponse.statusText,
                   oldResponse.headers)
          EXCEPT !.late = newResponse.late]

\* A variant that leaves the Response without the marker.
MarkSent_Unmarked(response) == response

\* Reflect.set(response, responseSentSymbol, true)
MarkSent(response) == [response EXCEPT !.sent = TRUE]

\* isResponse(response, routeType)
IsResponse(res, routeType) == res.kind = "response" /\ routeType \in {"page", "redirect"}

\* ------------------------------------------------------- render pipeline

\* The status of a configured redirect for a request method: the configured
\* status, 301 when none is configured; a method other than GET and HEAD
\* turns 301 and 302 into 308.
RedirectRouteStatus(route, method) ==
    LET configured == IF route.redirect.status = 0 THEN 301 ELSE route.redirect.status
    IN IF method \notin {"GET", "HEAD"} /\ configured \in {301, 302} THEN 308 ELSE configured

RedirectResponse(route, method) ==
    Response(EmptyBody, RedirectRouteStatus(route, method), "",
             {<<"location", route.redirect.destination>>})

\* What a page module may do with a render context of the given status: throw,
\* stream its HTML (and possibly call the redirect helper once output has
\* begun), return the redirect helper's Response, or return a Response of
\* its own with status 404 or 500.
PageOutcomes(component, status) ==
    LET html == Response(Rendered(component), status, "", {<<"content-type", "text/html">>})
    IN { [kind |-> "throw", response |-> NoResponse],
         [kind |-> "response", response |-> html],
         [kind |-> "response", response |-> [html EXCEPT !.late = TRUE]],
         [kind |-> "response",
          response |-> Response(EmptyBody, 302, "", {<<"location", "/login">>})],
         [kind |-> "response",
          response |-> Response(Explicit(component), 404, "Not Found", {<<"x-page", component>>})],
         [kind |-> "response",
          response |-> Response(Explicit(component), 500, "Oops", {<<"x-page", component>>})] }

\* What an endpoint handler may do: throw, return a Response, or return a
\* plain body. The Response may carry the X-Astro-Response header, with the
\* value Not-Found or with another one, and may have status 500.
EndpointOutcomes(component) ==
    { [kind |-> "throw", response |-> NoResponse],
      [kind |-> "simple", response |-> Response(<<"simple", component>>, 0, "", {})],
      [kind |-> "endpoint", response |-> Response(Explicit(component), 500, "", {})],
      [kind |-> "endpoint",
       response |-> Response(Explicit(component), 200, "", {<<"x-astro-response", "Found">>})] }
    \cup { [kind |-> "endpoint", response |-> Response(Explicit(component), st, "", h)] :
              st \in {200, 404},
              h \in {{}, {<<"x-astro-response", "Not-Found">>}} }

\* tryRenderRoute(routeType, renderContext, env, pageModule, onRequest?): the
\* set of results the pipeline may give.
TryRenderRoute(routeType, route, status, method) ==
    IF route.type = "redirect" THEN {[kind |-> "response", response |-> RedirectResponse(route, method)]}
    ELSE IF routeType = "endpoint" THEN EndpointOutcomes(route.component)
    ELSE PageOutcomes(route.component, status)

\* What the onRequest handler does with a request: it calls next and returns
\* what next gives, or it returns a Response of its own without calling
\* next, a redirect to /test or a body. The handler of the model lets every
\* request through that is not for a page.
OnRequest(route) ==
    IF route.type = "page" THEN {"next", "redirect", "respond"} ELSE {"next"}

MiddlewareResponse(handler) ==
    IF handler = "redirect"
    THEN Response(EmptyBody, 302, "", {<<"location", "/test">>})
    ELSE Response(<<"middleware", "onRequest">>, 200, "", {})

\* A variant in which the render is performed whatever the handler does.
CallMiddleware_Rendered(handler, next) == next

\* The first step of tryRenderRoute: without a handler, or when the handler
\* calls next, the results are those of the underlying render `next`; a
\* handler that does not call next gives its Response and nothing is
\* rendered.
CallMiddleware(handler, next) ==
    IF handler \in {"none", "next"} THEN next
    ELSE {[kind |-> "response", response |-> MiddlewareResponse(handler)]}

ResponseSentMessage == "The response has already been sent to the browser and cannot be altered."

\* No pathname is being looked up.
NoLookup == [pathname |-> <<>>, route |-> 0, done |-> FALSE]

NoMatchRoute ==
    /\ table = <<>>
    /\ lookup = NoLookup

\* syncInternal has not been called.
NoSync == sync = [pc |-> "idle"]

\* NodeApp.render has not been called.
NoNode == node = [pc |-> "idle"]

\* removeBase has not been called.
NoRemoval == removal = [pc |-> "idle"]

\* handleHotUpdate has not been called.
NoHmr == hmr = [pc |-> "idle"]

\* No child is being rendered.
NoChild ==
    /\ child = [t |-> "falsy", v |-> "undefined"]
    /\ pending = <<>>
    /\ destination = <<>>
    /\ resolved = <<>>

\* No build is running.
NoError == [error |-> "", id |-> ""]
NoFacts == [redirect |-> "", distURL |-> <<>>]
NoPrevious == [ended |-> "none", disk |-> {}, routeFacts |-> <<>>, rendered |-> <<>>,
               writes |-> <<>>,
               builtPaths |-> {}, buildError |-> NoError]
NoProject == [redirects |-> TRUE, ssr |-> FALSE, routes |-> <<>>, order |-> <<>>,
              behaviour |-> <<>>, middleware |-> <<>>]

NoBuild ==
    /\ build = NoProject
    /\ gpc = "idle"
    /\ cursor = [page |-> 0, path |-> 0]
    /\ paths = <<>>
    /\ builtPaths = {}
    /\ inflight = {}
    /\ disk = {}
    /\ routeFacts = <<>>
    /\ rendered = <<>>
    /\ writes = <<>>
    /\ buildError = NoError
    /\ previous = NoPrevious

\* ---------------------------------------------------------------- Init

\* The side table the constructor builds from manifest.routes.
SideTable(routes) == {RouteInfoOf(routes[i]) : i \in 1..Len(routes)}

Init ==
    /\ NoRemoval
    /\ NoHmr
    /\ manifest \in Manifests
    /\ routeInfo = SideTable(manifest.routes)
    /\ pc = "idle"
    /\ request = NoRequest
    /\ locals = "none"
    /\ supplied = FALSE
    /\ routeData = 0
    /\ result = NoResult
    /\ errArgs = NoErrArgs
    /\ errorRoute = 0
    /\ fallbackResponse = NoResponse
    /\ outcome = NoOutcome
    /\ calls = <<>>
    /\ events = <<>>
    /\ renderState = NotStarted
    /\ stream = "none"
    /\ text = "unread"
    /\ NoBuild
    /\ NoChild
    /\ NoMatchRoute
    /\ NoSync
    /\ NoNode

\* The routes an adapter may pass to render for a request: the live routes
\* whose pattern matches the request's pathname.
Dispatchable(req) ==
    {i \in 1..Len(Routes) :
        ~Routes[i].prerender /\ PatternTest(Routes[i].pattern, RemoveBase(req.pathname))}

\* The call of #renderError(request, {routeData, status, response}).
CallRenderError(status, route, response, hasResponse) ==
    /\ pc' = "renderError"
    /\ errArgs' = [status |-> status, routeData |-> route,
                   response |-> response, hasResponse |-> hasResponse]

\* App.render returns `response`.
Return(response) ==
    /\ pc' = "done"
    /\ outcome' = Returned(response)
    /\ stream' = IF response.late THEN "open" ELSE "none"

\* A variant in which the error becomes an empty 500 Response.
Throw_Answered(error) ==
    /\ pc' = "done"
    /\ outcome' = Returned(Response(EmptyBody, 500, "", {}))
    /\ stream' = "none"

\* App.render throws `error`.
Throw(error) ==
    /\ pc' = "done"
    /\ outcome' = Rejected(error)
    /\ stream' = "none"

\* ------------------------------------------------------------- App.render

\* Reflect.set(request, clientLocalsSymbol, locals ?? {})
SetClientLocals(req, loc) ==
    [req EXCEPT !.clientLocals = IF loc = "undefined" THEN "fresh" ELSE loc]

\* A variant that attaches the locals before it looks for the route.
Render_LocalsFirst(req, given, loc) ==
    /\ pc = "idle"
    /\ locals' = loc
    /\ supplied' = (given # 0)
    /\ LET rd == IF given # 0 THEN given ELSE Match(req)
       IN /\ routeData' = rd
          /\ IF rd = 0
             THEN /\ request' = SetClientLocals(req, loc)
                  /\ CallRenderError(404, rd, NoResponse, FALSE)
             ELSE /\ request' = SetClientLocals(req, loc)
                  /\ pc' = "load"
                  /\ errArgs' = errArgs
    /\ UNCHANGED <<manifest, routeInfo, fallbackResponse, result, errorRoute, outcome, calls, events, renderState,
                   stream, text>>

\* render(request, routeData?, locals?): the route is the one supplied, or
\* the one match finds; with no route the 404 fallback is rendered, with a
\* route the locals are attached to the request.
Render(req, given, loc) ==
    /\ pc = "idle"
    /\ locals' = loc
    /\ supplied' = (given # 0)
    /\ LET rd == IF given # 0 THEN given ELSE Match(req)
       IN /\ routeData' = rd
          /\ IF rd = 0
             THEN /\ request' = req
                  /\ CallRenderError(404, rd, NoResponse, FALSE)
             ELSE /\ request' = SetClientLocals(req, loc)
                  /\ pc' = "load"
                  /\ errArgs' = errArgs
    /\ UNCHANGED <<manifest, routeInfo, fallbackResponse, result, errorRoute, outcome, calls, events, renderState,
                   stream, text>>

\* The module of the matched route is loaded and the render context built.
LoadModule ==
    /\ pc = "load"
    /\ IF ~GetModuleForRoute(Routes[routeData]).ok
       THEN Throw(GetModuleForRoute(Routes[routeData]).error)
       ELSE IF ~CreateRenderContext(Routes[routeData]).ok
            THEN Throw("TypeError")
            ELSE pc' = "tryRender" /\ UNCHANGED <<outcome, stream>>
    /\ UNCHANGED <<manifest, routeInfo, fallbackResponse, request, locals, supplied, routeData, result, errArgs, errorRoute,
                   calls, events, renderState, text>>

\* tryRenderRoute is called for the matched route, with the module's onRequest.
TryRenderBegin ==
    /\ pc = "tryRender"
    /\ pc' = "rendering"
    /\ \E handler \in OnRequest(Routes[routeData]) :
          calls' = Append(calls, [for |-> "main", mod |-> routeData, route |-> routeData,
                                  type |-> Routes[routeData].type, onRequest |-> handler,
                                  status |-> GetDefaultStatusCode(Routes[routeData]),
                                  scripts |-> CreateRenderContext(Routes[routeData]).scripts,
                                  styles |-> CreateRenderContext(Routes[routeData]).styles])
    /\ events' = Append(events, "tryRenderRoute")
    /\ renderState' = [renderState EXCEPT !.main = "Rendering"]
    /\ UNCHANGED <<manifest, routeInfo, fallbackResponse, request, locals, supplied, routeData, result, errArgs, errorRoute,
                   outcome, stream, text>>

\* tryRenderRoute settles: a result, or a thrown error that render catches.
TryRenderEnd ==
    /\ pc = "rendering"
    /\ \E res \in CallMiddleware(calls[Len(calls)].onRequest,
                                 TryRenderRoute(Routes[routeData].type, Routes[routeData],
                                                GetDefaultStatusCode(Routes[routeData]),
                                                request.method)) :
          IF res.kind = "throw"
          THEN /\ pc' = "caught"
               /\ renderState' = [renderState EXCEPT !.main = "Failed"]
               /\ result' = result
          ELSE /\ pc' = "result"
               /\ result' = res
               /\ renderState' = renderState
    /\ UNCHANGED <<manifest, routeInfo, fallbackResponse, request, locals, supplied, routeData, errArgs, errorRoute, outcome,
                   calls, events, stream, text>>

\* A variant of the catch block that logs the error and renders the route
\* once more.
CatchLog_Retry ==
    /\ pc = "caught"
    /\ Len(calls) < 2
    /\ events' = Append(events, "error")
    /\ pc' = "tryRender"
    /\ UNCHANGED <<manifest, routeInfo, fallbackResponse, request, locals, supplied, routeData, result,
                   errArgs, errorRoute, outcome, calls, renderState, stream, text>>

\* A variant of the catch block that renders the 500 fallback without
\* logging the error.
CatchLog_NoLog ==
    /\ pc = "caught"
    /\ CallRenderError(500, routeData, NoResponse, FALSE)
    /\ UNCHANGED <<manifest, routeInfo, fallbackResponse, request, locals, supplied, routeData, result,
                   errorRoute, outcome, calls, events, renderState, stream, text>>

\* The catch block: the error is logged, then the 500 fallback is rendered.
CatchLog ==
    /\ pc = "caught"
    /\ events' = Append(events, "error")
    /\ CallRenderError(500, routeData, NoResponse, FALSE)
    /\ UNCHANGED <<manifest, routeInfo, fallbackResponse, request, locals, supplied, routeData, result, errorRoute, outcome,
                   calls, renderState, stream, text>>

\* A variant that re-routes the Response of an endpoint by its status, as it
\* does the Response of a page.
Classify_EndpointByStatus ==
    /\ pc = "result"
    /\ IF IsResponse(result, Routes[routeData].type)
       THEN IF result.response.status \in STATUS_CODES
            THEN /\ CallRenderError(result.response.status, routeData, result.response, TRUE)
                 /\ renderState' = [renderState EXCEPT !.main = "Completed"]
                 /\ UNCHANGED <<outcome, stream>>
            ELSE /\ Return(MarkSent(result.response))
                 /\ renderState' = [renderState EXCEPT !.main = "Sent"]
                 /\ errArgs' = errArgs
       ELSE /\ renderState' = [renderState EXCEPT !.main = "Completed"]
            /\ IF result.kind = "endpoint"
               THEN IF result.response.status \in STATUS_CODES
                    THEN /\ CallRenderError(result.response.status, routeData, result.response, TRUE)
                         /\ UNCHANGED <<outcome, stream>>
                    ELSE /\ Return(result.response)
                         /\ errArgs' = errArgs
               ELSE /\ Return(Response(result.response.body, 200, "",
                                       {<<"content-type", "text/plain;charset=utf-8">>,
                                        <<"content-length", "byteLength">>}))
                    /\ errArgs' = errArgs
    /\ UNCHANGED <<manifest, routeInfo, fallbackResponse, request, locals, supplied, routeData, result, errorRoute, calls,
                   events, text>>

\* The result of the pipeline is classified and returned or re-routed.
Classify ==
    /\ pc = "result"
    /\ IF IsResponse(result, Routes[routeData].type)
       THEN IF result.response.status \in STATUS_CODES
            THEN /\ CallRenderError(result.response.status, routeData, result.response, TRUE)
                 /\ renderState' = [renderState EXCEPT !.main = "Completed"]
                 /\ UNCHANGED <<outcome, stream>>
            ELSE /\ Return(MarkSent(result.response))
                 /\ renderState' = [renderState EXCEPT !.main = "Sent"]
                 /\ errArgs' = errArgs
       ELSE /\ renderState' = [renderState EXCEPT !.main = "Completed"]
            /\ IF result.kind = "endpoint"
               THEN IF HeaderGet(result.response.headers, "x-astro-response") = "Not-Found"
                    THEN /\ CallRenderError(404, routeData, result.response, TRUE)
                         /\ UNCHANGED <<outcome, stream>>
                    ELSE /\ Return(result.response)
                         /\ errArgs' = errArgs
               ELSE /\ Return(Response(result.response.body, 200, "",
                                       {<<"content-type", "text/plain;charset=utf-8">>,
                                        <<"content-length", "byteLength">>}))
                    /\ errArgs' = errArgs
    /\ UNCHANGED <<manifest, routeInfo, fallbackResponse, request, locals, supplied, routeData, result, errorRoute, calls,
                   events, text>>

\* ---------------------------------------------------------- #renderError

\* return this.#mergeResponses(response, originalResponse)
ReturnMerged(response) ==
    /\ fallbackResponse' = response
    /\ Return(MergeResponses(response, errArgs.response, errArgs.hasResponse))

\* The empty fallback: new Response(null, {status}), merged and marked sent.
EmptyFallback ==
    /\ fallbackResponse' = Response(EmptyBody, errArgs.status, "", {})
    /\ Return(MarkSent(MergeResponses(Response(EmptyBody, errArgs.status, "", {}),
                                      errArgs.response, errArgs.hasResponse)))

\* The fallback route is looked up; a prerendered one that is not /<status>
\* itself is fetched, any other has its module loaded.
RenderErrorLookup ==
    /\ pc = "renderError"
    /\ events' = Append(events, "renderError")
    /\ LET er == MatchRoute(StatusPath(errArgs.status), Routes)
       IN /\ errorRoute' = er
          /\ IF er # 0
             THEN IF Routes[er].prerender /\ ~RouteEndsWith(Routes[er], errArgs.status)
                  THEN pc' = "fetch" /\ UNCHANGED <<fallbackResponse, outcome, stream>>
                  ELSE IF GetModuleForRoute(Routes[er]).ok
                       THEN pc' = "errRender" /\ UNCHANGED <<fallbackResponse, outcome, stream>>
                       ELSE Throw(GetModuleForRoute(Routes[er]).error) /\ UNCHANGED fallbackResponse
             ELSE EmptyFallback
    /\ UNCHANGED <<manifest, routeInfo, request, locals, supplied, routeData, result, errArgs, calls,
                   renderState, text>>

\* fetch(<base>/<status>): the static layer answers with the prebuilt page,
\* or with a 404 of its own.
Fetch ==
    /\ pc = "fetch"
    /\ events' = Append(events, "fetch")
    /\ \E st \in {200, 404} :
          ReturnMerged(Response(Prebuilt(StatusPath(errArgs.status)[1]), st, "OK",
                                {<<"content-type", "text/html">>, <<"etag", "static">>}))
    /\ UNCHANGED <<manifest, routeInfo, request, locals, supplied, routeData, result, errArgs, errorRoute,
                   calls, renderState, text>>

\* A variant that hands the onRequest of the fallback module to the pipeline.
ErrRenderBegin_OnRequest ==
    /\ pc = "errRender"
    /\ LET final == IF errArgs.routeData # 0 THEN errArgs.routeData ELSE errorRoute
           context == CreateRenderContext(Routes[final])
       IN IF context.ok
          THEN /\ pc' = "errRendering"
               /\ \E handler \in OnRequest(Routes[errorRoute]) :
                  calls' = Append(calls, [for |-> "fallback", mod |-> errorRoute,
                                        route |-> final, type |-> "page",
                                        onRequest |-> handler,
                                        status |-> errArgs.status,
                                        scripts |-> context.scripts,
                                        styles |-> context.styles])
               /\ events' = Append(events, "tryRenderRoute")
               /\ renderState' = [renderState EXCEPT !.fallback = "Rendering"]
               /\ UNCHANGED <<fallbackResponse, outcome, stream>>
          ELSE /\ EmptyFallback
               /\ UNCHANGED <<calls, events, renderState>>
    /\ UNCHANGED <<manifest, routeInfo, request, locals, supplied, routeData, result, errArgs,
                   errorRoute, text>>

\* A variant that builds the context of the fallback page from the fallback
\* route itself.
ErrRenderBegin_OwnContext ==
    /\ pc = "errRender"
    /\ LET final == errorRoute
           context == CreateRenderContext(Routes[final])
       IN IF context.ok
          THEN /\ pc' = "errRendering"
               /\ calls' = Append(calls, [for |-> "fallback", mod |-> errorRoute,
                                        route |-> final, type |-> "page",
                                        onRequest |-> "none",
                                        status |-> errArgs.status,
                                        scripts |-> context.scripts,
                                        styles |-> context.styles])
               /\ events' = Append(events, "tryRenderRoute")
               /\ renderState' = [renderState EXCEPT !.fallback = "Rendering"]
               /\ UNCHANGED <<fallbackResponse, outcome, stream>>
          ELSE /\ EmptyFallback
               /\ UNCHANGED <<calls, events, renderState>>
    /\ UNCHANGED <<manifest, routeInfo, request, locals, supplied, routeData, result, errArgs,
                   errorRoute, text>>

\* tryRenderRoute('page', ...) is called for the fallback page, with a context
\* for the matched route if there is one, and without onRequest; an error of
\* #createRenderContext is swallowed and the empty fallback returned.
ErrRenderBegin ==
    /\ pc = "errRender"
    /\ LET final == IF errArgs.routeData # 0 THEN errArgs.routeData ELSE errorRoute
           context == CreateRenderContext(Routes[final])
       IN IF context.ok
          THEN /\ pc' = "errRendering"
               /\ calls' = Append(calls, [for |-> "fallback", mod |-> errorRoute,
                                        route |-> final, type |-> "page",
                                        onRequest |-> "none",
                                        status |-> errArgs.status,
                                        scripts |-> context.scripts,
                                        styles |-> context.styles])
               /\ events' = Append(events, "tryRenderRoute")
               /\ renderState' = [renderState EXCEPT !.fallback = "Rendering"]
               /\ UNCHANGED <<fallbackResponse, outcome, stream>>
          ELSE /\ EmptyFallback
               /\ UNCHANGED <<calls, events, renderState>>
    /\ UNCHANGED <<manifest, routeInfo, request, locals, supplied, routeData, result, errArgs,
                   errorRoute, text>>

\* A variant of the fallback render without the try/catch around it: an
\* error of the fallback page is thrown on.
ErrRenderEnd_NoCatch ==
    /\ pc = "errRendering"
    /\ \E res \in TryRenderRoute("page", Routes[errorRoute], errArgs.status, request.method) :
          IF res.kind = "throw"
          THEN /\ Throw("RenderError")
               /\ renderState' = [renderState EXCEPT !.fallback = "Failed"]
               /\ UNCHANGED fallbackResponse
          ELSE /\ ReturnMerged(res.response)
               /\ renderState' = [renderState EXCEPT !.fallback = "Completed"]
    /\ UNCHANGED <<manifest, routeInfo, request, locals, supplied, routeData, result, errArgs, errorRoute,
                   calls, events, text>>

\* The fallback render settles: its Response is merged and returned; an
\* error is swallowed and the empty fallback returned.
ErrRenderEnd ==
    /\ pc = "errRendering"
    /\ \E res \in TryRenderRoute("page", Routes[errorRoute], errArgs.status, request.method) :
          IF res.kind = "throw"
          THEN /\ EmptyFallback
               /\ renderState' = [renderState EXCEPT !.fallback = "Failed"]
          ELSE /\ ReturnMerged(res.response)
               /\ renderState' = [renderState EXCEPT !.fallback = "Completed"]
    /\ UNCHANGED <<manifest, routeInfo, request, locals, supplied, routeData, result, errArgs, errorRoute,
                   calls, events, text>>

\* ------------------------------------------------- the returned Response

\* The page behind the body stream calls the redirect helper after its
\* output has begun: on a Response marked sent the call raises the
\* "already sent" error, which errors the stream; otherwise it sets the
\* status and the Location header.
LateRedirect ==
    /\ pc = "done"
    /\ stream = "open"
    /\ IF outcome.response.sent
       THEN stream' = "errored" /\ outcome' = outcome
       ELSE /\ stream' = "closed"
            /\ outcome' = [outcome EXCEPT !.response.status = 302,
                                          !.response.headers =
                                              {h \in @ : h[1] # "location"}
                                              \cup {<<"location", "/login">>}]
    /\ UNCHANGED <<manifest, routeInfo, fallbackResponse, pc, request, locals, supplied, routeData, result, errArgs, errorRoute,
                   calls, events, renderState, text>>

\* response.text(): the body is read to its end; an errored stream rejects
\* with the error's message.
ReadText ==
    /\ pc = "done"
    /\ outcome.kind = "returned"
    /\ stream # "open"
    /\ text = "unread"
    /\ text' = IF stream = "errored" THEN ResponseSentMessage ELSE "resolved"
    /\ UNCHANGED <<manifest, routeInfo, fallbackResponse, pc, request, locals, supplied, routeData, result, errArgs, errorRoute,
                   outcome, calls, events, renderState, stream>>

\* The call is over; the next request may come.
NextRequest ==
    /\ pc = "done"
    /\ pc' = "idle"
    /\ request' = NoRequest
    /\ locals' = "none"
    /\ supplied' = FALSE
    /\ routeData' = 0
    /\ result' = NoResult
    /\ errArgs' = NoErrArgs
    /\ errorRoute' = 0
    /\ fallbackResponse' = NoResponse
    /\ outcome' = NoOutcome
    /\ calls' = <<>>
    /\ events' = <<>>
    /\ renderState' = NotStarted
    /\ stream' = "none"
    /\ text' = "unread"
    /\ UNCHANGED <<manifest, routeInfo>>

RenderCall ==
    \E req \in Requests : \E given \in {0} \cup Dispatchable(req) :
        \E loc \in {"undefined", "supplied"} : Render(req, given, loc)

Next ==
    \/ RenderCall /\ UNCHANGED outsideApp
    \/ LoadModule /\ UNCHANGED outsideApp
    \/ TryRenderBegin /\ UNCHANGED outsideApp
    \/ TryRenderEnd /\ UNCHANGED outsideApp
    \/ CatchLog /\ UNCHANGED outsideApp
    \/ Classify /\ UNCHANGED outsideApp
    \/ RenderErrorLookup /\ UNCHANGED outsideApp
    \/ Fetch /\ UNCHANGED outsideApp
    \/ ErrRenderBegin /\ UNCHANGED outsideApp
    \/ ErrRenderEnd /\ UNCHANGED outsideApp
    \/ LateRedirect /\ UNCHANGED outsideApp
    \/ ReadText /\ UNCHANGED outsideApp
    \/ NextRequest /\ UNCHANGED outsideApp

Spec == Init /\ [][Next]_vars

\* ================================================== the static build

MaxPages == 2

\* route.pathname: the fixed pathname of a route without dynamic segments,
\* as a one-element set; the empty set for undefined.
RoutePathname(route) ==
    IF \A i \in 1..Len(route.pattern) : route.pattern[i].k = "static"
    THEN {[i \in 1..Len(route.pattern) |-> route.pattern[i].s]}
    ELSE {}

\* The routes a project may have, by slot, in the priority order of the
\* route table. Two pages and a configured redirect share the pathname /a,
\* and both spread routes list it among their static paths. A page or an
\* endpoint is prerendered or not.
PageSlots ==
    << {PageRoute(<<Seg("a")>>, "a.astro", p) : p \in BOOLEAN},
       {PageRoute(<<Seg("a")>>, "a.md", TRUE)},
       {RedirectRoute(<<Seg("a")>>, "/test", s) : s \in {0, 302}},
       {[EndpointRoute(<<Seg("api")>>, "api.ts") EXCEPT !.prerender = p] : p \in BOOLEAN},
       {PageRoute(<<Spread("slug")>>, "[...slug].astro", p) : p \in BOOLEAN},
       {PageRoute(<<Spread("rest")>>, "[...rest].astro", TRUE)} >>

RECURSIVE ProjectTablesFrom(_, _)
ProjectTablesFrom(i, n) ==
    IF i > Len(PageSlots) THEN {<<>>}
    ELSE ProjectTablesFrom(i + 1, n) \cup
         (IF n = 0 THEN {}
          ELSE {<<v>> \o t : v \in PageSlots[i], t \in ProjectTablesFrom(i + 1, n - 1)})

ProjectTables == ProjectTablesFrom(1, MaxPages) \ {<<>>}

\* What getStaticPaths and route.generate give for a route with a spread
\* segment.
StaticPaths == << <<"a">>, <<"b">> >>

\* What the page of a route does when it is rendered at build time. A page
\* may throw, give HTML, give a Response without a body, redirect to /login
\* (302), give a 301 with a Location and a body, give a 302 without a
\* Location, or be a draft that is skipped; a redirect route gives its
\* configured redirect; an endpoint may throw, give a plain body, a
\* Response with a body, or a 301 Response.
Draft == [kind |-> "draft", response |-> NoResponse]

BuildOutcomes(route) ==
    IF route.type = "redirect" THEN TryRenderRoute("redirect", route, 200, "GET")
    ELSE IF route.type = "endpoint"
    THEN { [kind |-> "throw", response |-> NoResponse],
           [kind |-> "simple", response |-> Response(<<"simple", route.component>>, 0, "", {})],
           [kind |-> "endpoint", response |-> Response(Explicit(route.component), 200, "", {})],
           [kind |-> "endpoint",
            response |-> Response(Explicit(route.component), 301, "",
                                  {<<"location", "/login">>})] }
    ELSE { o \in PageOutcomes(route.component, 200) :
              ~o.response.late /\ o.response.status \notin {404, 500} }
         \cup
         { [kind |-> "response", response |-> Response(EmptyBody, 200, "", {})],
           [kind |-> "response",
            response |-> Response(Rendered(route.component), 301, "",
                                  {<<"location", "/login">>})],
           [kind |-> "response", response |-> Response(EmptyBody, 302, "", {})] }
         \cup (IF route.component = "a.md" THEN {Draft} ELSE {})

\* The order in which internals lists the pages: the non-redirect routes in
\* the order of the table or in the reverse order; generatePages takes the
\* redirect routes after them.
RECURSIVE Reverse(_)
Reverse(seq) == IF seq = <<>> THEN <<>> ELSE Reverse(Tail(seq)) \o <<Head(seq)>>

Indices(routes, redir) ==
    SelectSeq([i \in 1..Len(routes) |-> i],
              LAMBDA i : (routes[i].type = "redirect") = redir)

PageOrders(routes) ==
    { o \o Indices(routes, TRUE) :
         o \in {Indices(routes, FALSE), Reverse(Indices(routes, FALSE))} }

Behaviours(routes) ==
    { b \in [1..Len(routes) -> UNION {BuildOutcomes(routes[i]) : i \in 1..Len(routes)}] :
         \A i \in 1..Len(routes) : b[i] \in BuildOutcomes(routes[i]) }

\* With output 'static' every page and endpoint is prerendered; with a
\* server-like output each one says whether it is.
OutputModes(routes) ==
    {ssr \in BOOLEAN :
        ~ssr => \A i \in 1..Len(routes) :
                   routes[i].type # "redirect" => routes[i].prerender}

\* What the onRequest handler of the project does for each route. Behind a
\* handler that does not call next a page throws or gives its HTML.
Middlewares(routes, b) ==
    { h \in [1..Len(routes) -> {"next", "redirect", "respond"}] :
         \A i \in 1..Len(routes) :
            /\ h[i] \in OnRequest(routes[i])
            /\ h[i] # "next" =>
                  \/ b[i].kind = "throw"
                  \/ b[i].response = Response(Rendered(routes[i].component), 200, "",
                                              {<<"content-type", "text/html">>}) }

Projects ==
    UNION { UNION { { [redirects |-> TRUE, ssr |-> m, routes |-> t, order |-> o,
                       behaviour |-> b, middleware |-> h] :
                         m \in OutputModes(t), o \in PageOrders(t), h \in Middlewares(t, b) } :
                    b \in Behaviours(t) } :
            t \in ProjectTables }

\* What tryRenderRoute gives for route i, with the onRequest handler of the
\* project.
RenderResult(i) ==
    CHOOSE res \in CallMiddleware(build.middleware[i], {build.behaviour[i]}) : TRUE

\* ------------------------------------------------- helpers of the build

\* getOutFile(config, outFolder, pathname, routeType), build.format
\* 'directory': <pathname>/index.html for a page or a redirect, the pathname
\* itself for an endpoint.
OutFile(pathname, routeType) ==
    IF routeType = "endpoint" THEN pathname ELSE pathname \o <<"index.html">>

\* getRedirectLocationOrThrow(headers)
GetRedirectLocationOrThrow(headers) ==
    LET location == HeaderGet(headers, "location")
    IN IF location = ""
       THEN [ok |-> FALSE, location |-> "", error |-> "RedirectWithNoLocation"]
       ELSE [ok |-> TRUE, location |-> location, error |-> ""]

\* A variant without a delay for any status.
Delay_None(status) == 0

\* const delay = response.status === 302 ? 2 : 0
Delay(status) == IF status = 302 THEN 2 ELSE 0

\* A file that holds the body of a response.
BodyFile(body) ==
    [doc |-> FALSE, body |-> body, title |-> "", refresh |-> [delay |-> 0, url |-> ""],
     robots |-> "", canonical |-> "", anchor |-> "", from |-> <<>>]

\* A variant whose canonical link points at the page itself.
RedirectDocument_SelfCanonical(status, location, fromPath) ==
    [doc |-> TRUE, body |-> EmptyBody, title |-> location,
     refresh |-> [delay |-> Delay(status), url |-> location],
     robots |-> "noindex", canonical |-> "self", anchor |-> location, from |-> fromPath]

\* The redirect document: title, meta refresh, robots, canonical link and
\* anchor, by the parts the template fills in.
RedirectDocument(status, location, fromPath) ==
    [doc |-> TRUE, body |-> EmptyBody, title |-> location,
     refresh |-> [delay |-> Delay(status), url |-> location],
     robots |-> "noindex", canonical |-> location, anchor |-> location, from |-> fromPath]

\* A variant that filters the paths of a route with a fixed pathname as well.
GetPathsForRoute_Uniform(i, built) ==
    LET route == build.routes[i]
        staticPaths == IF RoutePathname(route) # {}
                       THEN <<CHOOSE p \in RoutePathname(route) : TRUE>>
                       ELSE StaticPaths
        kept == SelectSeq(staticPaths,
                          LAMBDA sp : sp \notin built \/ MatchRoute(sp, build.routes) = i)
    IN [paths |-> kept, builtPaths |-> built \cup {kept[k] : k \in 1..Len(kept)}]

\* getPathsForRoute(pageData, mod, opts, builtPaths): the paths to generate
\* for route i, and builtPaths after the call. A fixed pathname is taken as
\* it is; a static path already built is kept only if the route table gives
\* this route for it.
GetPathsForRoute(i, built) ==
    LET route == build.routes[i]
    IN IF RoutePathname(route) # {}
       THEN [paths |-> <<CHOOSE p \in RoutePathname(route) : TRUE>>,
             builtPaths |-> built \cup RoutePathname(route)]
       ELSE LET kept == SelectSeq(StaticPaths,
                           LAMBDA sp : sp \notin built \/ MatchRoute(sp, build.routes) = i)
            IN [paths |-> kept, builtPaths |-> built \cup {kept[k] : k \in 1..Len(kept)}]

\* A generatePath call: the route, the pathname, and the body to be written
\* once the render has given one.
PathCall(route, pathname) ==
    [route |-> route, pathname |-> pathname, stage |-> "render", body |-> BodyFile(EmptyBody)]

\* A variant in which the error is dropped and the build goes on.
Abort_Swallowed(call, error) ==
    /\ inflight' = inflight \ {call}
    /\ UNCHANGED <<gpc, buildError>>

\* An error leaves generatePath, generatePage and generatePages: nothing of
\* the build runs after it.
Abort(call, error) ==
    /\ inflight' = inflight \ {call}
    /\ gpc' = "failed"
    /\ buildError' = error

\* generatePath returns without writing.
ReturnUnwritten(call) ==
    /\ inflight' = inflight \ {call}
    /\ UNCHANGED <<gpc, buildError>>

\* generatePath goes on to write `body`.
GoWrite(call, body) ==
    /\ inflight' = (inflight \ {call}) \cup {[call EXCEPT !.stage = "write", !.body = body]}
    /\ UNCHANGED <<gpc, buildError>>

\* ------------------------------------------------------- generatePages

\* hasPrerenderedPages(internals)
HasPrerenderedPages == \E i \in 1..Len(build.routes) : build.routes[i].prerender

\* A variant of the loop over the pages that generates every page.
NotPrerendered_Never(i) == FALSE

\* In the loop of a server-like output, a page or endpoint that is not
\* prerendered is passed over; the redirect routes have a loop of their own.
NotPrerendered(i) ==
    build.ssr /\ build.routes[i].type # "redirect" /\ ~build.routes[i].prerender

\* generatePages(opts, internals): with a server-like output and no
\* prerendered page it returns at once; otherwise builtPaths is created and
\* the loop over the pages begins.
GeneratePages ==
    /\ gpc = "idle"
    /\ build # NoProject
    /\ IF build.ssr /\ ~HasPrerenderedPages
       THEN gpc' = "done" /\ UNCHANGED <<cursor, builtPaths>>
       ELSE /\ gpc' = "pages"
            /\ cursor' = [page |-> 1, path |-> 0]
            /\ builtPaths' = {}
    /\ UNCHANGED <<writes, build, paths, inflight, disk, routeFacts, rendered, buildError, previous>>
    /\ UNCHANGED outsideBuild

\* The next page of the loop and generatePage(opts, internals, pageData,
\* ssrEntry, builtPaths, manifest) up to its loop over the paths: a page that
\* is not prerendered is passed over and a draft is skipped, otherwise the
\* paths of the route are taken.
GeneratePage ==
    /\ gpc = "pages"
    /\ cursor.page <= Len(build.order)
    /\ LET i == build.order[cursor.page]
       IN IF NotPrerendered(i) \/ build.behaviour[i] = Draft
          THEN /\ cursor' = [page |-> cursor.page + 1, path |-> 0]
               /\ UNCHANGED <<gpc, paths, builtPaths>>
          ELSE /\ gpc' = "paths"
               /\ cursor' = [cursor EXCEPT !.path = 1]
               /\ paths' = GetPathsForRoute(i, builtPaths).paths
               /\ builtPaths' = GetPathsForRoute(i, builtPaths).builtPaths
    /\ UNCHANGED <<writes, build, inflight, disk, routeFacts, rendered, buildError, previous>>
    /\ UNCHANGED outsideBuild

\* A variant of the paths loop that does not await generatePath.
GeneratePath_NoAwait ==
    /\ gpc = "paths"
    /\ cursor.path <= Len(paths)
    /\ inflight' = inflight \cup {PathCall(build.order[cursor.page], paths[cursor.path])}
    /\ rendered' = Append(rendered, [route |-> build.order[cursor.page],
                                     pathname |-> paths[cursor.path]])
    /\ cursor' = [cursor EXCEPT !.path = @ + 1]
    /\ UNCHANGED <<writes, build, gpc, paths, builtPaths, disk, routeFacts, buildError, previous>>
    /\ UNCHANGED outsideBuild

\* await generatePath(path, ...), up to its tryRenderRoute call: the loop
\* takes the next path once the call before it has completed.
GeneratePath ==
    /\ gpc = "paths"
    /\ inflight = {}
    /\ cursor.path <= Len(paths)
    /\ inflight' = {PathCall(build.order[cursor.page], paths[cursor.path])}
    /\ rendered' = Append(rendered, [route |-> build.order[cursor.page],
                                     pathname |-> paths[cursor.path]])
    /\ cursor' = [cursor EXCEPT !.path = @ + 1]
    /\ UNCHANGED <<writes, build, gpc, paths, builtPaths, disk, routeFacts, buildError, previous>>
    /\ UNCHANGED outsideBuild

\* tryRenderRoute settles and generatePath decides what to write: an error
\* is thrown on with the component as its id; an endpoint result or a
\* Response without a body writes nothing; a 3xx Response writes nothing
\* when build.redirects is off, and otherwise the redirect document for its
\* Location, which is also recorded on a route that is not a redirect route.
RenderSettles(call) ==
    /\ gpc = "paths"
    /\ call.stage = "render"
    /\ LET route == build.routes[call.route]
           res == RenderResult(call.route)
           response == res.response
           location == GetRedirectLocationOrThrow(response.headers)
       IN IF res.kind = "throw"
          THEN Abort(call, [error |-> "RenderError", id |-> route.component])
               /\ UNCHANGED routeFacts
          ELSE IF ~IsResponse(res, route.type)
          THEN /\ IF res.kind = "endpoint" /\ response.body = EmptyBody
                  THEN ReturnUnwritten(call)
                  ELSE GoWrite(call, BodyFile(response.body))
               /\ UNCHANGED routeFacts
          ELSE IF response.status >= 300 /\ response.status < 400
          THEN IF ~build.redirects
               THEN ReturnUnwritten(call) /\ UNCHANGED routeFacts
               ELSE IF ~location.ok
               THEN Abort(call, [error |-> location.error, id |-> ""])
                    /\ UNCHANGED routeFacts
               ELSE /\ GoWrite(call, RedirectDocument(response.status, location.location,
                                                      call.pathname))
                    /\ routeFacts' =
                          IF route.type # "redirect"
                          THEN [routeFacts EXCEPT ![call.route].redirect = location.location]
                          ELSE routeFacts
          ELSE /\ IF response.body = EmptyBody
                  THEN ReturnUnwritten(call)
                  ELSE GoWrite(call, BodyFile(response.body))
               /\ UNCHANGED routeFacts
    /\ UNCHANGED <<writes, build, cursor, paths, builtPaths, disk, rendered, previous>>
    /\ UNCHANGED outsideBuild

\* A variant that writes the file and leaves the route as it is.
WriteFile_NoDistURL(call) ==
    /\ gpc = "paths"
    /\ call.stage = "write"
    /\ LET outFile == OutFile(call.pathname, build.routes[call.route].type)
       IN /\ routeFacts' = routeFacts
          /\ disk' = {f \in disk : f.file # outFile}
                     \cup {[file |-> outFile, content |-> call.body, route |-> call.route,
                            pathname |-> call.pathname]}
    /\ writes' = Append(writes, [file |-> OutFile(call.pathname, build.routes[call.route].type),
                                 content |-> call.body, route |-> call.route,
                                 pathname |-> call.pathname])
    /\ inflight' = inflight \ {call}
    /\ UNCHANGED <<build, gpc, cursor, paths, builtPaths, rendered, buildError, previous>>
    /\ UNCHANGED outsideBuild

\* The end of generatePath: distURL is set on the route, and the file is
\* written in place of what the out folder held under its name.
WriteFile(call) ==
    /\ gpc = "paths"
    /\ call.stage = "write"
    /\ LET outFile == OutFile(call.pathname, build.routes[call.route].type)
       IN /\ routeFacts' = [routeFacts EXCEPT ![call.route].distURL = outFile]
          /\ disk' = {f \in disk : f.file # outFile}
                     \cup {[file |-> outFile, content |-> call.body, route |-> call.route,
                            pathname |-> call.pathname]}
    /\ writes' = Append(writes, [file |-> OutFile(call.pathname, build.routes[call.route].type),
                                 content |-> call.body, route |-> call.route,
                                 pathname |-> call.pathname])
    /\ inflight' = inflight \ {call}
    /\ UNCHANGED <<build, gpc, cursor, paths, builtPaths, rendered, buildError, previous>>
    /\ UNCHANGED outsideBuild

\* generatePage returns: the pages loop goes to the next page.
GeneratePageEnd ==
    /\ gpc = "paths"
    /\ inflight = {}
    /\ cursor.path > Len(paths)
    /\ gpc' = "pages"
    /\ cursor' = [page |-> cursor.page + 1, path |-> 0]
    /\ UNCHANGED <<writes, build, paths, builtPaths, inflight, disk, routeFacts, rendered, buildError,
                   previous>>
    /\ UNCHANGED outsideBuild

\* The loops are over: the build:generated hook runs and generatePages
\* returns.
GeneratePagesEnd ==
    /\ gpc = "pages"
    /\ cursor.page > Len(build.order)
    /\ gpc' = "done"
    /\ UNCHANGED <<writes, build, cursor, paths, builtPaths, inflight, disk, routeFacts, rendered,
                   buildError, previous>>
    /\ UNCHANGED outsideBuild

\* The same project is built again with build.redirects = false, from a
\* clean out folder and freshly loaded routes.
Rebuild ==
    /\ gpc \in {"done", "failed"}
    /\ build.redirects
    /\ previous' = [ended |-> gpc, disk |-> disk, routeFacts |-> routeFacts,
                    rendered |-> rendered, writes |-> writes, builtPaths |-> builtPaths,
                    buildError |-> buildError]
    /\ build' = [build EXCEPT !.redirects = FALSE]
    /\ gpc' = "idle"
    /\ cursor' = [page |-> 0, path |-> 0]
    /\ paths' = <<>>
    /\ builtPaths' = {}
    /\ inflight' = {}
    /\ disk' = {}
    /\ routeFacts' = [i \in 1..Len(build.routes) |-> NoFacts]
    /\ rendered' = <<>>
    /\ writes' = <<>>
    /\ buildError' = NoError
    /\ UNCHANGED outsideBuild

\* No App is serving while the project is built.
NoApp ==
    /\ manifest = [routes |-> <<>>, assets |-> {}, modules |-> [kind |-> "none", has |-> {}], base |-> <<>>]
    /\ routeInfo = {}
    /\ pc = "idle"
    /\ request = NoRequest
    /\ locals = "none"
    /\ supplied = FALSE
    /\ routeData = 0
    /\ result = NoResult
    /\ errArgs = NoErrArgs
    /\ errorRoute = 0
    /\ fallbackResponse = NoResponse
    /\ outcome = NoOutcome
    /\ calls = <<>>
    /\ events = <<>>
    /\ renderState = NotStarted
    /\ stream = "none"
    /\ text = "unread"

BuildInit ==
    /\ NoRemoval
    /\ NoHmr
    /\ NoApp
    /\ NoChild
    /\ NoMatchRoute
    /\ NoSync
    /\ NoNode
    /\ build \in Projects
    /\ gpc = "idle"
    /\ cursor = [page |-> 0, path |-> 0]
    /\ paths = <<>>
    /\ builtPaths = {}
    /\ inflight = {}
    /\ disk = {}
    /\ routeFacts = [i \in 1..Len(build.routes) |-> NoFacts]
    /\ rendered = <<>>
    /\ writes = <<>>
    /\ buildError = NoError
    /\ previous = NoPrevious

BuildNext ==
    \/ GeneratePages
    \/ GeneratePage
    \/ GeneratePath
    \/ \E call \in inflight : RenderSettles(call)
    \/ \E call \in inflight : WriteFile(call)
    \/ GeneratePageEnd
    \/ GeneratePagesEnd
    \/ Rebuild

BuildSpec == BuildInit /\ [][BuildNext]_vars

\* ======================================================== renderChild

MaxItems == 2

\* Strings are sequences of characters.
Strings == {<<>>, <<"a">>, <<"<">>, <<"a", "&">>, <<"<", "a">>}

\* escapeHTML(str): the characters & < > ' become entities.
EscapeChar(ch) ==
    IF ch = "&" THEN <<"&", "a", "m", "p", ";">>
    ELSE IF ch = "<" THEN <<"&", "l", "t", ";">>
    ELSE IF ch = ">" THEN <<"&", "g", "t", ";">>
    ELSE IF ch = "'" THEN <<"&", "#", "3", "9", ";">>
    ELSE <<ch>>

RECURSIVE EscapeHTML(_)
EscapeHTML(str) ==
    IF str = <<>> THEN <<>> ELSE EscapeChar(Head(str)) \o EscapeHTML(Tail(str))

MaxPromises == 2

\* The values a child may be. A plain string, an HTMLString and a
\* SlotString carry their text; a function carries what it returns; an
\* array and an iterable carry their items; a render instance carries the
\* chunks its render writes; a promise carries the value it resolves to;
\* false, null and undefined are the falsy values that are not numbers or
\* strings.
PlainString(s) == [t |-> "string", s |-> s]
HTMLString(s) == [t |-> "html", s |-> s]
SlotString(s) == [t |-> "slot", s |-> s]

\* markHTMLString(value)
MarkHTMLString(s) == HTMLString(s)

LeafChildren ==
    {PlainString(s) : s \in Strings}
    \cup {HTMLString(<<"<", "a">>), SlotString(<<"<">>)}
    \cup {[t |-> "falsy", v |-> v] : v \in {"false", "null", "undefined"}}
    \cup {[t |-> "number", n |-> 0], [t |-> "number", n |-> 7],
          [t |-> "boolean"], [t |-> "binary", s |-> <<"<">>],
          [t |-> "instance", chunks |-> <<HTMLString(<<"<", "a">>)>>]}

PromiseOf(k, c) == [t |-> "promise", id |-> k, value |-> c]

\* Children that hold promises: a promise alone, and siblings of which one or
\* both are promises, in an array or an async iterable.
PromisedChildren ==
    LET first == {PromiseOf(1, c) :
                     c \in {PlainString(<<"a">>), [t |-> "number", n |-> 0],
                            [t |-> "array", items |-> <<PlainString(<<"<">>),
                                                        HTMLString(<<"<", "a">>)>>]}}
        second == {PromiseOf(2, c) : c \in {PlainString(<<"<">>), SlotString(<<"<">>)}}
        plain == {PlainString(<<"a", "&">>), [t |-> "falsy", v |-> "null"]}
        lists == {<<p, q>> : p \in first, q \in second}
                 \cup {<<p, c>> : p \in first, c \in plain}
                 \cup {<<c, q>> : c \in plain, q \in second}
    IN first
       \cup {[t |-> "array", items |-> l] : l \in lists}
       \cup {[t |-> "iterable", items |-> l] : l \in lists}

ItemLists(items) ==
    UNION {[1..n -> items] : n \in 0..MaxItems}

Children ==
    LET called == LeafChildren
                  \cup {[t |-> "function", returns |-> c] : c \in {PlainString(<<"<">>),
                                                                   HTMLString(<<"<", "a">>)}}
        nested == called
                  \cup {[t |-> "array", items |-> <<PlainString(<<"<">>), SlotString(<<"<">>)>>]}
    IN called
       \cup PromisedChildren
       \cup {[t |-> "array", items |-> l] : l \in ItemLists(nested)}
       \cup {[t |-> "iterable", items |-> l] :
                l \in ItemLists({PlainString(<<"<", "a">>), HTMLString(<<"<", "a">>),
                                 [t |-> "number", n |-> 0]})}

\* A variant that marks the string without escaping it.
WriteString_Unescaped(c) == MarkHTMLString(c.s)

\* markHTMLString(escapeHTML(child))
WriteString(c) == MarkHTMLString(EscapeHTML(c.s))

\* destination.write(chunk), for the child c.
Write(c, chunk) == destination' = Append(destination, [child |-> c, chunk |-> chunk])

\* !child, for the values of the model.
Not(c) ==
    \/ c.t = "falsy"
    \/ c.t = "number" /\ c.n = 0
    \/ c.t = "string" /\ c.s = <<>>

\* A variant of the test that ignores every falsy value.
Ignored_Zero(c) == Not(c)

\* !child && child !== 0
Ignored(c) == Not(c) /\ ~(c.t = "number" /\ c.n = 0)

\* The ids of the promises a child holds.
RECURSIVE PromiseIds(_)
PromiseIds(c) ==
    IF c.t = "promise" THEN {c.id} \cup PromiseIds(c.value)
    ELSE IF c.t \in {"array", "iterable"}
    THEN UNION {PromiseIds(c.items[k]) : k \in 1..Len(c.items)}
    ELSE IF c.t = "function" THEN PromiseIds(c.returns)
    ELSE {}

HasResolved(k) == \E n \in 1..Len(resolved) : resolved[n] = k

\* A variant in which the calls for all the siblings are started at once.
NextCalls_Concurrent == 1..Len(pending)

\* The calls that may run: each renderChild call for an item is awaited before
\* the call for the next item is made.
NextCalls == IF pending = <<>> THEN {} ELSE {1}

\* renderChild(destination, child) for the next child awaited: a promise is
\* awaited and its value rendered in its place; an HTMLString or SlotString
\* is written as it is; the items of an array or an iterable, and what a
\* function returns, are rendered in order before anything that follows; a
\* string is escaped, marked and written; a falsy value other than 0 is
\* dropped; a render instance renders itself into the destination; a binary
\* view and anything else is written as it is.
RenderChild ==
    /\ \E i \in NextCalls :
         LET c == pending[i]
             before == SubSeq(pending, 1, i - 1)
             rest == SubSeq(pending, i + 1, Len(pending))
         IN IF c.t = "promise"
            THEN /\ HasResolved(c.id)
                 /\ pending' = before \o <<c.value>> \o rest
                 /\ UNCHANGED destination
            ELSE IF c.t \in {"slot", "html"}
            THEN Write(c, c) /\ pending' = before \o rest
            ELSE IF c.t = "array"
            THEN pending' = before \o c.items \o rest /\ UNCHANGED destination
            ELSE IF c.t = "function"
            THEN pending' = before \o <<c.returns>> \o rest /\ UNCHANGED destination
            ELSE IF c.t = "string"
            THEN Write(c, WriteString(c)) /\ pending' = before \o rest
            ELSE IF Ignored(c)
            THEN pending' = before \o rest /\ UNCHANGED destination
            ELSE IF c.t = "instance"
            THEN /\ destination' = destination \o
                       [k \in 1..Len(c.chunks) |-> [child |-> c, chunk |-> c.chunks[k]]]
                 /\ pending' = before \o rest
            ELSE IF c.t = "binary"
            THEN Write(c, c) /\ pending' = before \o rest
            ELSE IF c.t = "iterable"
            THEN pending' = before \o c.items \o rest /\ UNCHANGED destination
            ELSE Write(c, c) /\ pending' = before \o rest
    /\ UNCHANGED <<child, resolved, outsideChild>>

\* A promise of the child resolves; promises resolve in any order.
Resolve(k) ==
    /\ k \in PromiseIds(child)
    /\ ~HasResolved(k)
    /\ resolved' = Append(resolved, k)
    /\ UNCHANGED <<child, pending, destination, outsideChild>>

ChildInit ==
    /\ NoRemoval
    /\ NoHmr
    /\ NoApp
    /\ NoBuild
    /\ NoMatchRoute
    /\ NoSync
    /\ NoNode
    /\ child \in Children
    /\ pending = <<child>>
    /\ destination = <<>>
    /\ resolved = <<>>

ChildNext ==
    \/ RenderChild
    \/ \E k \in 1..MaxPromises : Resolve(k)

ChildSpec == ChildInit /\ [][ChildNext]_vars

\* ============================================ the pipeline's two callers

\* tryRenderRoute as App.render calls it and as generatePath calls it: an
\* App serving requests, or a project being built.
PipelineInit == Init \/ BuildInit

PipelineNext ==
    \/ build = NoProject /\ Next
    \/ BuildNext

PipelineSpec == PipelineInit /\ [][PipelineNext]_vars

\* ========================================================= matchRoute

MaxTable == 3

\* Routes that overlap: /a declared by a page and by an injected route, /a/b,
\* and routes with a dynamic or a spread segment that match them too.
OverlappingRoutes ==
    { PageRoute(<<Seg("a")>>, "a.astro", FALSE),
      PageRoute(<<Seg("a")>>, "injected.astro", FALSE),
      PageRoute(<<Dynamic("id")>>, "[id].astro", FALSE),
      PageRoute(<<Spread("slug")>>, "[...slug].astro", FALSE),
      PageRoute(<<Seg("a"), Seg("b")>>, "a/b.astro", FALSE),
      PageRoute(<<Seg("a"), Dynamic("id")>>, "a/[id].astro", FALSE),
      PageRoute(<<Dynamic("id"), Seg("b")>>, "[id]/b.astro", FALSE) }

\* The tables of up to MaxTable of these routes, in every order.
RouteOrders ==
    { t \in UNION {[1..n -> OverlappingRoutes] : n \in 1..MaxTable} :
         \A i, j \in 1..Len(t) : i # j => t[i] # t[j] }

LookupPathnames == {<<>>, <<"a">>, <<"c">>, <<"a", "b">>, <<"c", "b">>, <<"a", "c">>}

\* matchRoute(pathname, manifest)
MatchRouteCall(pathname) ==
    /\ ~lookup.done
    /\ lookup' = [pathname |-> pathname, route |-> MatchRoute(pathname, table), done |-> TRUE]
    /\ UNCHANGED table
    /\ UNCHANGED outsideMatch

MatchInit ==
    /\ NoRemoval
    /\ NoHmr
    /\ NoApp
    /\ NoBuild
    /\ NoChild
    /\ NoSync
    /\ NoNode
    /\ table \in RouteOrders
    /\ lookup = NoLookup

MatchNext == \E pathname \in LookupPathnames : MatchRouteCall(pathname)

MatchSpec == MatchInit /\ [][MatchNext]_vars

\* ======================================================== syncInternal

\* Errors: an AstroError, or anything else that is thrown.
AstroError(name) == [astro |-> TRUE, name |-> name, cause |-> ""]
PlainError(name) == [astro |-> FALSE, name |-> name, cause |-> ""]
NoThrown == [astro |-> FALSE, name |-> "", cause |-> ""]

\* What the collaborators of one call do: createContentTypesGenerator
\* gives a generator or throws; init gives a result or throws; the content
\* config observer holds a loaded config or an error.
SyncInputs ==
    [generator : {NoThrown, AstroError("UnknownContentCollectionError"), PlainError("EACCES")},
     init : {[typesGenerated |-> TRUE, reason |-> "", thrown |-> NoThrown],
             [typesGenerated |-> FALSE, reason |-> "no-content-dir", thrown |-> NoThrown],
             [typesGenerated |-> FALSE, reason |-> "other", thrown |-> NoThrown],
             [typesGenerated |-> FALSE, reason |-> "",
              thrown |-> AstroError("InvalidContentEntrySlugError")],
             [typesGenerated |-> FALSE, reason |-> "", thrown |-> PlainError("SyntaxError")]},
     config : {[status |-> "loaded", error |-> NoThrown],
               [status |-> "error", error |-> AstroError("ContentConfigError")],
               [status |-> "error", error |-> PlainError("ZodError")]}]

NoExit == [kind |-> "none", value |-> 0, error |-> NoThrown]
Exit(value) == [kind |-> "returned", value |-> value, error |-> NoThrown]
Failure(error) == [kind |-> "rejected", value |-> 0, error |-> error]

\* The catch block: an AstroError is thrown on as it is, anything else
\* inside a GenerateContentTypesError.
Caught(e) ==
    IF e.astro THEN Failure(e)
    ELSE Failure([astro |-> TRUE, name |-> "GenerateContentTypesError", cause |-> e.name])

\* syncInternal(settings, {logging, fs}): the temporary server is created.
SyncInternal ==
    /\ sync.pc = "called"
    /\ sync' = [sync EXCEPT !.pc = "generator", !.server = "open"]
    /\ UNCHANGED outsideSync

\* await createContentTypesGenerator(...)
CreateContentTypesGenerator ==
    /\ sync.pc = "generator"
    /\ sync' = IF sync.input.generator # NoThrown
               THEN [sync EXCEPT !.pc = "finally", !.pending = Caught(sync.input.generator)]
               ELSE [sync EXCEPT !.pc = "init"]
    /\ UNCHANGED outsideSync

\* await contentTypesGenerator.init()
GeneratorInit ==
    /\ sync.pc = "init"
    /\ sync' = IF sync.input.init.thrown # NoThrown
               THEN [sync EXCEPT !.pc = "finally", !.pending = Caught(sync.input.init.thrown)]
               ELSE [sync EXCEPT !.pc = "config"]
    /\ UNCHANGED outsideSync

\* The content config is read: its error is thrown; types that were not
\* generated are logged as skipped and 0 is returned.
CheckResult ==
    /\ sync.pc = "config"
    /\ sync' = IF sync.input.config.status = "error"
               THEN [sync EXCEPT !.pc = "finally", !.pending = Caught(sync.input.config.error)]
               ELSE IF ~sync.input.init.typesGenerated
               THEN [sync EXCEPT !.pc = "finally", !.pending = Exit(0),
                                 !.log = "No content directory found. Skipping type generation."]
               ELSE [sync EXCEPT !.pc = "finally"]
    /\ UNCHANGED outsideSync

\* finally: the temporary server is closed, then the return or the throw
\* that was under way takes place.
Finally ==
    /\ sync.pc = "finally"
    /\ sync' = IF sync.pending = NoExit
               THEN [sync EXCEPT !.pc = "envTs", !.server = "closed"]
               ELSE [sync EXCEPT !.pc = "settled", !.server = "closed", !.exit = sync.pending]
    /\ UNCHANGED outsideSync

\* The types were generated: this is logged, env.d.ts is set up and 0 is
\* returned.
SetUpEnvTs ==
    /\ sync.pc = "envTs"
    /\ sync' = [sync EXCEPT !.pc = "settled", !.log = "Types generated", !.envTs = TRUE,
                            !.exit = Exit(0)]
    /\ UNCHANGED outsideSync

SyncInit ==
    /\ NoRemoval
    /\ NoHmr
    /\ NoApp
    /\ NoBuild
    /\ NoChild
    /\ NoMatchRoute
    /\ NoNode
    /\ sync \in {[pc |-> "called", input |-> i, server |-> "none", pending |-> NoExit,
                   log |-> "", envTs |-> FALSE, exit |-> NoExit] : i \in SyncInputs}

SyncNext ==
    \/ SyncInternal
    \/ CreateContentTypesGenerator
    \/ GeneratorInit
    \/ CheckResult
    \/ Finally
    \/ SetUpEnvTs

SyncSpec == SyncInit /\ [][SyncNext]_vars

\* ====================================================== NodeApp.render

MaxChunks == 2

\* The bytes of a body; a Request without a body has null.
NullBody == [null |-> TRUE, bytes |-> <<>>]
Bytes(b) == [null |-> FALSE, bytes |-> b]

\* req.body as a middleware before the adapter may have left it: undefined,
\* a string or an object, each possibly empty; `bytes` is what Buffer.from
\* gives for the string, or for the JSON text of the object.
PreParsed ==
    { [type |-> "undefined", bytes |-> <<>>],
      [type |-> "string", bytes |-> <<>>],
      [type |-> "string", bytes |-> <<"s">>],
      [type |-> "object", bytes |-> <<>>],
      [type |-> "object", bytes |-> <<"{", "k", "}">>] }

\* What the request stream emits once it is listened to: up to MaxChunks
\* 'data' chunks, then 'end', 'error', or both in either order.
Scripts ==
    { [k \in 1..Len(d) |-> [event |-> "data", chunk |-> d[k]]] \o t :
         d \in UNION {[1..n -> {<<"x">>, <<"y", "z">>}] : n \in 0..MaxChunks},
         t \in { <<[event |-> "end", chunk |-> <<>>]>>,
                 <<[event |-> "error", chunk |-> <<>>]>>,
                 <<[event |-> "end", chunk |-> <<>>], [event |-> "error", chunk |-> <<>>]>>,
                 <<[event |-> "error", chunk |-> <<>>], [event |-> "end", chunk |-> <<>>]>> } }

\* The req passed to render: a standard Request, or a Node IncomingMessage
\* with its method (none for undefined), its body property and its stream.
NodeRequests ==
    { [kind |-> "Request", method |-> "POST", body |-> [type |-> "object", bytes |-> <<>>],
       script |-> <<>>] }
    \cup [kind : {"IncomingMessage"}, method : {"", "GET", "HEAD", "POST"},
          body : PreParsed, script : Scripts]

\* A variant that always passes the body on.
RequestBody_Always(method, body) == body

\* body: ['HEAD', 'GET'].includes(method) ? null : body, with method =
\* req.method || 'GET'; an undefined body is no body.
RequestBody(method, body) ==
    IF method \in {"", "GET", "HEAD"} THEN NullBody ELSE body

\* createRequestFromNodeRequest(req, body?)
CreateRequestFromNodeRequest(req, body) ==
    [method |-> IF req.method = "" THEN "GET" ELSE req.method,
     body |-> RequestBody(req.method, body)]

\* super.render(request, routeData, locals) begins.
SuperRender(standard) ==
    node' = [node EXCEPT !.pc = "rendering", !.renders = Append(@, standard)]

\* A variant that puts the new chunk before what has arrived.
Concat_Before(body, d) == d \o body

\* Buffer.concat([body, d])
Concat(body, d) == body \o d

\* NodeApp.render(req, routeData, locals): a body that is a string or an
\* object with keys is passed on at once; otherwise the listeners are put
\* on the stream and the promise of the whole body is returned, with the
\* render chained to it; a req that is no stream is rendered as it is.
NodeRender ==
    /\ node.pc = "called"
    /\ LET req == node.req
       IN IF req.body.type \in {"string", "object"} /\ req.body.bytes # <<>>
          THEN SuperRender(CreateRequestFromNodeRequest(req, Bytes(req.body.bytes)))
          ELSE IF req.kind = "IncomingMessage"
          THEN node' = [node EXCEPT !.pc = "listening", !.reqBodyComplete = "pending"]
          ELSE SuperRender([method |-> req.method, body |-> NullBody])
    /\ UNCHANGED outsideNode

\* The stream emits its next event to the listeners: a chunk is appended
\* to the body, 'end' resolves the promise, 'error' rejects it and with it
\* the promise render returned; a settled promise stays as it is.
Emit ==
    /\ node.pc \in {"listening", "rendering", "rejected"}
    /\ node.script # <<>>
    /\ LET e == Head(node.script)
           heard == [node EXCEPT !.script = Tail(@), !.heard = Append(@, e)]
       IN node' =
            IF e.event = "data"
            THEN [heard EXCEPT !.body = Concat(@, e.chunk)]
            ELSE IF node.reqBodyComplete # "pending" THEN heard
            ELSE IF e.event = "end"
            THEN [heard EXCEPT !.reqBodyComplete = "resolved"]
            ELSE [heard EXCEPT !.reqBodyComplete = "rejected", !.pc = "rejected"]
    /\ UNCHANGED outsideNode

\* reqBodyComplete.then(() => super.render(...)): the render begins with the
\* body as it stands.
Then ==
    /\ node.pc = "listening"
    /\ node.reqBodyComplete = "resolved"
    /\ SuperRender(CreateRequestFromNodeRequest(node.req, Bytes(node.body)))
    /\ UNCHANGED outsideNode

NodeInit ==
    /\ NoRemoval
    /\ NoHmr
    /\ NoApp
    /\ NoBuild
    /\ NoChild
    /\ NoMatchRoute
    /\ NoSync
    /\ node \in {[pc |-> "called", req |-> r, script |-> r.script, heard |-> <<>>,
                   body |-> <<>>, reqBodyComplete |-> "none", renders |-> <<>>] :
                     r \in NodeRequests}

NodeNext ==
    \/ NodeRender
    \/ Emit
    \/ Then

NodeSpec == NodeInit /\ [][NodeNext]_vars

\* ============================================== the setters of the App

\* The routes of the manifests the setters are tried with: a page, an
\* endpoint, a /404 page and a prerendered catch-all.
SetterRoutes ==
    {PageRoute(<<Seg("a")>>, "a.astro", FALSE),
     EndpointRoute(<<Seg("api")>>, "api.ts"),
     PageRoute(<<Seg("404")>>, "404.astro", FALSE),
     PageRoute(<<Spread("slug")>>, "slug.astro", TRUE)}

\* The manifests the setters are tried with: those with a non-empty table of
\* such routes and a module for each of them.
SetterManifests ==
    {m \in Manifests :
        /\ m.routes # <<>>
        /\ \A i \in 1..Len(m.routes) : m.routes[i] \in SetterRoutes
        /\ \/ m.modules.kind = "pageModule"
           \/ m.modules.kind = "pageMap" /\ m.modules.has = Components(m.routes)}

\* set setManifest(newManifest): #manifest is replaced; #manifestData and
\* the side table stay as they are.
SetManifest(newManifest) ==
    /\ pc = "idle"
    /\ manifest' = [newManifest EXCEPT !.routes = manifest.routes]
    /\ manifest' # manifest
    /\ UNCHANGED <<routeInfo, pc, request, locals, supplied, routeData, result, errArgs,
                   errorRoute, fallbackResponse, outcome, calls, events, renderState,
                   stream, text>>

\* set setManifestData(newManifestData): #manifestData is replaced; the side
\* table stays as it is.
SetManifestData(newManifestData) ==
    /\ pc = "idle"
    /\ manifest' = [manifest EXCEPT !.routes = newManifestData.routes]
    /\ manifest' # manifest
    /\ UNCHANGED <<routeInfo, pc, request, locals, supplied, routeData, result, errArgs,
                   errorRoute, fallbackResponse, outcome, calls, events, renderState,
                   stream, text>>

\* An App constructed with one of the manifests.
SetterInit == Init /\ manifest \in SetterManifests

SetterNext ==
    \/ Next
    \/ \E m \in SetterManifests : SetManifest(m) /\ UNCHANGED outsideApp
    \/ \E m \in SetterManifests : SetManifestData([routes |-> m.routes]) /\ UNCHANGED outsideApp

SetterSpec == SetterInit /\ [][SetterNext]_vars

\* ====================================================== App.removeBase

\* Pathnames have at most this many characters.
MaxPathLen == 4

\* The characters of the pathnames and the bases tried.
PathChars == {"/", "d", "o"}

RECURSIVE StringsUpTo(_)
StringsUpTo(n) ==
    IF n = 0 THEN {<<>>}
    ELSE StringsUpTo(n - 1) \cup {Append(str, c) : str \in StringsUpTo(n - 1), c \in PathChars}

\* manifest.base: the root, or /d with and without a trailing slash.
Bases == {<<"/">>, <<"/", "d">>, <<"/", "d", "/">>}

\* url.pathname: a string that begins with a slash.
UrlPathnames == {str \in StringsUpTo(MaxPathLen) : str # <<>> /\ str[1] = "/"}

\* str.startsWith(prefix)
StartsWith(str, prefix) ==
    Len(prefix) <= Len(str) /\ SubSeq(str, 1, Len(prefix)) = prefix

\* str.slice(start)
Slice(str, start) ==
    IF start >= Len(str) THEN <<>> ELSE SubSeq(str, start + 1, Len(str))

\* removeTrailingForwardSlash(path)
RemoveTrailingForwardSlash(path) ==
    IF path # <<>> /\ path[Len(path)] = "/" THEN SubSeq(path, 1, Len(path) - 1) ELSE path

\* removeBase(pathname) of an App whose manifest has the base, on strings.
RemoveBaseString(base, pathname) ==
    IF StartsWith(pathname, base)
    THEN Slice(pathname, Len(RemoveTrailingForwardSlash(base)) + 1)
    ELSE pathname

\* removeBase is called and returns.
RemoveBaseCall ==
    /\ removal.pc = "called"
    /\ removal' = [removal EXCEPT !.pc = "returned",
                                  !.result = RemoveBaseString(removal.base, removal.pathname)]
    /\ UNCHANGED outsideRemoval

RemovalInit ==
    /\ NoApp
    /\ NoBuild
    /\ NoChild
    /\ NoMatchRoute
    /\ NoSync
    /\ NoNode
    /\ NoHmr
    /\ removal \in {[pc |-> "called", base |-> b, pathname |-> p, result |-> <<>>] :
                       b \in Bases, p \in UrlPathnames}

RemovalNext == RemoveBaseCall

RemovalSpec == RemovalInit /\ [][RemovalNext]_vars

\* ==================================================== handleHotUpdate

\* A file of the project or of the astro package, with its extension.
File(dir, name, ext) == [dir |-> dir, name |-> name, ext |-> ext]

\* The file that changed: a component or a script of the project, or a
\* component of the astro package.
ChangedFiles ==
    {File("src", "a", "astro"), File("src", "util", "ts"), File("pkg", "c", "astro")}

\* The components that import the changed file.
ImporterFiles == {File("src", "b", "astro")}

\* ctx.file.endsWith('.astro')
EndsWithAstro(file) == file.ext = "astro"

\* isPkgFile(id): the file lies in the astro package.
IsPkgFile(file) == file.dir = "pkg"

\* What compiling a component gives: its scope hash and its styles.
CompileResults == [scope : {"h1", "h2"}, css : SUBSET {"red", "blue"}]

\* An entry of the compile cache: the result, and whether it was compiled
\* from the sources as they were before the change or as they are now.
CacheEntry(file, res, from) == [file |-> file, result |-> res, from |-> from]

\* The result kept for a component whose styles are of no interest here.
SomeResult == [scope |-> "h0", css |-> {}]

\* The module nodes of the changed file, ctx.modules: the component module
\* and the module of its styles, each with the components that import it.
ModuleNode(file, kind, importers) == [file |-> file, kind |-> kind, importers |-> importers]

ModuleLists(file) ==
    {{}} \cup {{ModuleNode(file, "component", imps)} : imps \in SUBSET ImporterFiles}
         \cup {{ModuleNode(file, "component", imps), ModuleNode(file, "style", {})} :
                   imps \in SUBSET ImporterFiles}

\* isCached(config, filename)
IsCached(cache, file) == \E e \in cache : e.file = file

\* invalidateCompilation(config, filename)
InvalidateCompilation(cache, file) == {e \in cache : e.file # file}

\* cachedCompilation(props): the cached result of the file if there is one,
\* otherwise the result of compiling it now, which is put in the cache.
CachedCompilation(cache, file, now) ==
    IF IsCached(cache, file)
    THEN [result |-> (CHOOSE e \in cache : e.file = file).result, cache |-> cache]
    ELSE [result |-> now, cache |-> cache \cup {CacheEntry(file, now, "new")}]

\* The styles of the new result that are left once each style of the old
\* result has been deleted from them.
StylesLeft(oldCss, newCss) == newCss \ oldCss

\* The calls of handleHotUpdate tried: a changed file, the cache as it was
\* (the changed component and its importers cached or not), what the
\* compiler gives for the changed component now, and ctx.modules.
HmrInputs ==
    UNION {{[file |-> f, cache |-> own \cup others, now |-> now, modules |-> mods] :
               own \in IF EndsWithAstro(f)
                       THEN {{}} \cup {{CacheEntry(f, r, "old")} : r \in CompileResults}
                       ELSE {{}},
               others \in SUBSET {CacheEntry(i, SomeResult, "old") : i \in ImporterFiles},
               now \in IF EndsWithAstro(f) THEN CompileResults ELSE {SomeResult},
               mods \in ModuleLists(f)} : f \in ChangedFiles}

\* What handleHotUpdate returns, with the line of the return statement.
ModuleList(mods, at) == [kind |-> "list", mods |-> mods, at |-> at]
Undefined(at) == [kind |-> "undefined", mods |-> {}, at |-> at]

\* handleHotUpdate returns.
HmrReturn(value) ==
    hmr' = [hmr EXCEPT !.pc = "returned", !.returned = value]

\* The first part of handleHotUpdate. For a component, the cached result is
\* taken, the component is invalidated and compiled afresh; when the scopes
\* are equal the change is a style-only change, and when no style is left
\* the update is skipped with an empty list. Any other file is invalidated.
HotUpdateCompile ==
    /\ hmr.pc = "called"
    /\ IF EndsWithAstro(hmr.file)
       THEN LET old == CachedCompilation(hmr.cache, hmr.file, hmr.now)
                new == CachedCompilation(InvalidateCompilation(old.cache, hmr.file),
                                         hmr.file, hmr.now)
                same == old.result.scope = new.result.scope
                skip == same /\ StylesLeft(old.result.css, new.result.css) = {}
            IN hmr' = [hmr EXCEPT !.pc = IF skip THEN "returned" ELSE "compiled",
                                  !.returned = IF skip THEN ModuleList({}, 95)
                                               ELSE @,
                                  !.cache = new.cache,
                                  !.oldResult = old.result,
                                  !.newResult = new.result,
                                  !.isStyleOnlyChange = same]
       ELSE hmr' = [hmr EXCEPT !.pc = "compiled",
                               !.cache = InvalidateCompilation(hmr.cache, hmr.file)]
    /\ UNCHANGED outsideHmr

\* The cached files among the files of the modules and of their importers;
\* a module of the astro package is passed over with its importers.
FilesToInvalidate(cache, modules) ==
    LET kept == {m \in modules : ~IsPkgFile(m.file)}
    IN {f \in {m.file : m \in kept} \cup UNION {m.importers : m \in kept} : IsCached(cache, f)}

\* A variant of the invalidation that leaves the importers alone.
HotUpdateInvalidate_NoImporters ==
    /\ hmr.pc = "compiled"
    /\ IF IsPkgFile(hmr.file)
       THEN HmrReturn(Undefined(104))
       ELSE hmr' = [hmr EXCEPT
               !.pc = "invalidated",
               !.cache = {e \in @ :
                             \/ e.file \notin {m.file : m \in hmr.modules}
                             \/ ~IsCached(hmr.cache, e.file)
                             \/ hmr.isStyleOnlyChange /\ e.file = hmr.file}]
    /\ UNCHANGED outsideHmr

\* The second part: a file of the astro package ends the call; otherwise
\* the cached files of the modules and of their importers are invalidated,
\* save the changed file itself when the change is a style-only change.
HotUpdateInvalidate ==
    /\ hmr.pc = "compiled"
    /\ IF IsPkgFile(hmr.file)
       THEN HmrReturn(Undefined(104))
       ELSE hmr' = [hmr EXCEPT
               !.pc = "invalidated",
               !.cache = {e \in @ :
                             \/ e.file \notin FilesToInvalidate(hmr.cache, hmr.modules)
                             \/ hmr.isStyleOnlyChange /\ e.file = hmr.file}]
    /\ UNCHANGED outsideHmr

\* The last part: the modules to update are returned, without the component
\* module when the change is a style-only change.
HotUpdateReturn ==
    /\ hmr.pc = "invalidated"
    /\ IF hmr.isStyleOnlyChange
       THEN HmrReturn(ModuleList({m \in hmr.modules : m.kind # "component"}, 147))
       ELSE HmrReturn(ModuleList(hmr.modules, 167))
    /\ UNCHANGED outsideHmr

HmrInit ==
    /\ NoApp
    /\ NoBuild
    /\ NoChild
    /\ NoMatchRoute
    /\ NoSync
    /\ NoNode
    /\ NoRemoval
    /\ hmr \in {[pc |-> "called", file |-> i.file, cache |-> i.cache, before |-> i.cache,
                 now |-> i.now, modules |-> i.modules, oldResult |-> SomeResult,
                 newResult |-> SomeResult, isStyleOnlyChange |-> FALSE,
                 returned |-> [kind |-> "none", mods |-> {}, at |-> 0]] : i \in HmrInputs}

HmrNext ==
    \/ HotUpdateCompile
    \/ HotUpdateInvalidate
    \/ HotUpdateReturn

HmrSpec == HmrInit /\ [][HmrNext]_vars

\* ================================================================ claims

\* The returned Response has not been altered by its page since it was returned.
Unaltered == stream # "closed"

\* The positions of #renderError.
InFallback == pc \in {"renderError", "fetch", "errRender", "errRendering"}

MainCalls == {i \in 1..Len(calls) : calls[i].for = "main"}
FallbackCalls == {i \in 1..Len(calls) : calls[i].for = "fallback"}
Happened(e) == e \in {events[i] : i \in 1..Len(events)}

\* The fallback route of a status: the route that matches /404 or /500.
ErrorRouteFor(status) == MatchRoute(StatusPath(status), Routes)

\* The last segment of the route is the literal <status>.
EndsInStatus(route, status) ==
    /\ Len(route.pattern) > 0
    /\ route.pattern[Len(route.pattern)] =
          [k |-> "static", s |-> IF status = 404 THEN "404" ELSE "500"]

\* The fallback route of the status is fetched, not rendered.
IsFetched(status) ==
    /\ ErrorRouteFor(status) # 0
    /\ Routes[ErrorRouteFor(status)].prerender
    /\ ~EndsInStatus(Routes[ErrorRouteFor(status)], status)

SameContent(a, b) ==
    /\ a.body = b.body
    /\ a.status = b.status
    /\ a.statusText = b.statusText
    /\ a.headers = b.headers

\* The Response returned is the one the fallback route gave (rendered now,
\* or prebuilt and fetched).
ReturnsErrorPage ==
    /\ outcome.kind = "returned"
    /\ Happened("fetch") \/ renderState.fallback = "Completed"
    /\ Unaltered => SameContent(outcome.response, fallbackResponse)

\* The Response returned is the empty one of the status, marked sent.
ReturnsEmpty(status) ==
    /\ outcome.kind = "returned"
    /\ renderState.fallback \in {"NotStarted", "Failed"}
    /\ outcome.response = MarkSent(Response(EmptyBody, status, "", {}))

\* How a fallback with no original Response ends: the fallback route's
\* Response; the empty Response when there is no fallback route or its
\* render throws; the load error when its module cannot be loaded.
FallbackEnds(status) ==
    LET er == ErrorRouteFor(status)
    IN IF er = 0 THEN ReturnsEmpty(status)
       ELSE IF IsFetched(status) THEN ReturnsErrorPage
       ELSE IF ~GetModuleForRoute(Routes[er]).ok
            THEN outcome = Rejected(GetModuleForRoute(Routes[er]).error) /\ FallbackCalls = {}
            ELSE \/ ReturnsErrorPage
                 \/ ReturnsEmpty(status) /\ renderState.fallback = "Failed"

NoMatch == pc # "idle" /\ ~supplied /\ routeData = 0

ErrorLoggedFirst ==
    \A i \in 1..Len(events) :
        events[i] \in {"renderError", "fetch"} => \E j \in 1..(i - 1) : events[j] = "error"

C3_StatusRerouted ==
    (/\ InFallback \/ pc = "done"
     /\ routeData # 0
     /\ result.kind = "response"
     /\ result.response.status \in {404, 500}) =>
        /\ Routes[routeData].type \in {"page", "redirect"}
        /\ renderState.main = "Completed"
        /\ errArgs = [status |-> result.response.status, routeData |-> routeData,
                      response |-> result.response, hasResponse |-> TRUE]
        /\ pc = "done" =>
              /\ Happened("renderError")
              /\ outcome.kind = "returned" =>
                    /\ fallbackResponse # NoResponse
                    /\ Unaltered => outcome.response.body = fallbackResponse.body

\* A page answered 500 itself and the call has returned.
C3_Witness ==
    /\ pc = "done"
    /\ result.kind = "response"
    /\ result.response.status = 500
    /\ outcome.kind = "returned"

\* C4: a fallback merged with an original Response has the fallback's body,
\* the original's headers and statusText, and the original's status unless
\* that is 200, when it has the fallback's; with no original the fallback
\* Response is returned as it is.
C4_Merge ==
    (pc = "done" /\ outcome.kind = "returned" /\ Unaltered /\ fallbackResponse # NoResponse) =>
        IF errArgs.hasResponse
        THEN /\ outcome.response.body = fallbackResponse.body
             /\ outcome.response.headers = errArgs.response.headers
             /\ outcome.response.statusText = errArgs.response.statusText
             /\ outcome.response.status =
                   IF errArgs.response.status # 200 THEN errArgs.response.status
                   ELSE fallbackResponse.status
        ELSE SameContent(outcome.response, fallbackResponse)

\* An endpoint's 200 Response marked Not-Found has been merged with a
\* fallback page of status 404.
C4_Witness ==
    /\ pc = "done"
    /\ errArgs.hasResponse
    /\ errArgs.response.status = 200
    /\ fallbackResponse.status = 404
    /\ fallbackResponse.body[1] = "rendered"
    /\ outcome.kind = "returned" /\ outcome.response.status = 404

\* The fallback page is rendered by one tryRenderRoute call of type page
\* with the module of the fallback route.
RendersErrorPage(er) ==
    /\ ~Happened("fetch")
    /\ Cardinality(FallbackCalls) = 1
    /\ \A i \in FallbackCalls : calls[i].mod = er /\ calls[i].type = "page"

\* The fallback page is fetched and its module not executed.
FetchesErrorPage(status) ==
    /\ Happened("fetch")
    /\ FallbackCalls = {}
    /\ outcome.kind = "returned"
    /\ Unaltered => outcome.response.body = <<"prebuilt", IF status = 404 THEN "404" ELSE "500">>

C6_Match ==
    (pc # "idle" /\ ~supplied) =>
        /\ routeData \in 0..Len(Routes)
        /\ routeData # 0 => PatternTest(Routes[routeData].pattern, request.pathname)
        /\ request.pathname \in manifest.assets => routeData = 0
        /\ (\A i \in 1..Len(Routes) : ~PatternTest(Routes[i].pattern, request.pathname))
              => routeData = 0

\* A request for a public asset that a live route would match has no match.
C6_Witness ==
    /\ pc # "idle" /\ ~supplied
    /\ request.pathname \in manifest.assets
    /\ routeData = 0
    /\ \E i \in 1..Len(Routes) :
          ~Routes[i].prerender /\ PatternTest(Routes[i].pattern, request.pathname)

\* C7: a prerendered route is never dispatched: the route rendered is not
\* prerendered, and no tryRenderRoute call gets the module of a prerendered
\* route.
C7_NoPrerenderedDispatch ==
    /\ routeData # 0 => ~Routes[routeData].prerender
    /\ \A i \in 1..Len(calls) : ~Routes[calls[i].mod].prerender

\* C8: a redirect route answers GET and HEAD with the configured status,
\* 301 when none is configured, and the configured destination as Location;
\* any other method turns 301 and 302 into 308.
C8_Redirect ==
    (pc = "done" /\ routeData # 0 /\ Routes[routeData].type = "redirect") =>
        LET cfg == Routes[routeData].redirect
            configured == IF cfg.status = 0 THEN 301 ELSE cfg.status
        IN /\ outcome.kind = "returned"
           /\ HeaderGet(outcome.response.headers, "location") = cfg.destination
           /\ outcome.response.status =
                 IF request.method \in {"GET", "HEAD"} THEN configured
                 ELSE IF configured \in {301, 302} THEN 308 ELSE configured

\* A redirect configured with 302 has answered a POST with 308.
C8_Witness ==
    /\ pc = "done"
    /\ routeData # 0
    /\ Routes[routeData].redirect.status = 302
    /\ request.method = "POST"
    /\ outcome.kind = "returned" /\ outcome.response.status = 308

\* C9: a page Response that render marked sent keeps its status and headers
\* when its page calls the redirect helper late, and text() on it never
\* resolves: it fails with the "already sent" message.
C9_SentNotAltered ==
    (pc = "done" /\ renderState.main = "Sent" /\ result.response.late) =>
        /\ outcome.response.status = result.response.status
        /\ outcome.response.headers = result.response.headers
        /\ stream \in {"open", "errored"}
        /\ text \in {"unread",
                     "The response has already been sent to the browser and cannot be altered."}

\* text() on a sent Response whose page redirected late has failed.
C9_Witness ==
    /\ pc = "done"
    /\ renderState.main = "Sent"
    /\ outcome.response.sent
    /\ stream = "errored"
    /\ text = "The response has already been sent to the browser and cannot be altered."

EndStates == {"Completed", "Sent", "Failed"}

RenderStep(a, b) ==
    \/ a = b
    \/ a = "NotStarted" /\ b = "Rendering"
    \/ a = "Rendering" /\ b \in EndStates

\* C10: within one render call, the render of the matched route and the
\* render of the fallback page each go NotStarted -> Rendering -> Completed,
\* Sent or Failed and stay there, each has had exactly one tryRenderRoute
\* call once it has left NotStarted, and no step changes the status or the
\* headers of a returned Response marked sent.
C10_RenderStateMachine ==
    /\ [](/\ Cardinality(MainCalls) = IF renderState.main = "NotStarted" THEN 0 ELSE 1
          /\ Cardinality(FallbackCalls) = IF renderState.fallback = "NotStarted" THEN 0 ELSE 1)
    /\ [][pc' # "idle" =>
            /\ RenderStep(renderState.main, renderState'.main)
            /\ RenderStep(renderState.fallback, renderState'.fallback)
            /\ (outcome.kind = "returned" /\ outcome.response.sent) =>
                  /\ outcome'.response.status = outcome.response.status
                  /\ outcome'.response.headers = outcome.response.headers]_vars

\* The page of a Response marked sent has called the redirect helper late.
C10_Witness ==
    /\ renderState.main = "Sent"
    /\ outcome.response.sent
    /\ stream = "errored"

\* C11: a Response of a page or redirect route whose status is neither 404
\* nor 500 is the Response render returns: it is marked sent, no fallback is
\* entered, and its body, status, statusText and headers are those the
\* pipeline produced.
C11_PassThrough ==
    (/\ pc = "done"
     /\ routeData # 0
     /\ result.kind = "response"
     /\ result.response.status \notin {404, 500}) =>
        /\ renderState.main = "Sent"
        /\ ~Happened("renderError")
        /\ outcome.kind = "returned"
        /\ outcome.response.sent
        /\ SameContent(outcome.response, result.response)

\* A page that redirected to /login before its output has been answered
\* with 302 and Location /login.
C11_Witness ==
    /\ pc = "done"
    /\ routeData # 0
    /\ Routes[routeData].type = "page"
    /\ result.kind = "response"
    /\ outcome.kind = "returned"
    /\ outcome.response.status = 302
    /\ HeaderGet(outcome.response.headers, "location") = "/login"

\* C26: when #getModuleForRoute finds no module for the route render is
\* called for (a page map without an entry for its component, or neither a
\* page map nor a single page module), render rejects with that error at
\* once: tryRenderRoute is not called and #renderError is not entered.
C26_InconsistencyFatal ==
    /\ []((pc = "done" /\ routeData # 0 /\ ~GetModuleForRoute(Routes[routeData]).ok) =>
             /\ outcome = Rejected(GetModuleForRoute(Routes[routeData]).error)
             /\ calls = <<>>
             /\ ~Happened("renderError")
             /\ errorRoute = 0)
    /\ [][(pc = "load" /\ pc' # "load") =>
             IF GetModuleForRoute(Routes[routeData]).ok
             THEN pc' = "tryRender"
             ELSE /\ pc' = "done"
                  /\ outcome' = Rejected(GetModuleForRoute(Routes[routeData]).error)
                  /\ events' = events
                  /\ errArgs' = errArgs]_vars

\* render has rejected for a page whose component is not in the page map,
\* in an App that has a 500 page.
C26_Witness ==
    /\ pc = "done"
    /\ routeData # 0
    /\ Routes[routeData].type = "page"
    /\ manifest.modules.kind = "pageMap"
    /\ Routes[routeData].component \notin manifest.modules.has
    /\ \E i \in 1..Len(Routes) : RouteEndsWith(Routes[i], 500) /\ ~Routes[i].prerender
    /\ outcome = Rejected("UnableToFindComponentInstance")

\* How far #renderError has gone.
FallbackRank(at) ==
    CASE at = "renderError" -> 1
      [] at \in {"fetch", "errRender"} -> 2
      [] at = "errRendering" -> 3
      [] at = "done" -> 4
      [] OTHER -> 0

GivesRedirect(i) ==
    /\ IsResponse(RenderResult(i), build.routes[i].type)
    /\ RenderResult(i).response.status >= 300
    /\ RenderResult(i).response.status < 400

\* The Location header of the Response route i gives; "" for none.
Target(i) == HeaderGet(RenderResult(i).response.headers, "location")

\* The bodies generatePath has decided to write or has written.
Emitted ==
    {[route |-> c.route, pathname |-> c.pathname, content |-> c.body] :
        c \in {c \in inflight : c.stage = "write"}}
    \cup {[route |-> writes[k].route, pathname |-> writes[k].pathname,
           content |-> writes[k].content] : k \in 1..Len(writes)}

\* C12: the meta refresh of the document emitted for a 3xx Response has a
\* delay of 2 when the status is 302 and of 0 when it is a permanent
\* redirect (301, 308), and its url is the target.
C12_RefreshDelay ==
    \A e \in Emitted :
        GivesRedirect(e.route) =>
            LET status == RenderResult(e.route).response.status
            IN /\ status = 302 =>
                     e.content.refresh = [delay |-> 2, url |-> Target(e.route)]
               /\ status \in {301, 308} =>
                     e.content.refresh = [delay |-> 0, url |-> Target(e.route)]

\* One build has written a document with delay 2 for a 302 and a document
\* with delay 0 for a 301.
C12_Witness ==
    /\ \E k \in 1..Len(writes) :
          /\ RenderResult(writes[k].route).response.status = 302
          /\ writes[k].content.doc /\ writes[k].content.refresh.delay = 2
    /\ \E k \in 1..Len(writes) :
          /\ RenderResult(writes[k].route).response.status = 301
          /\ writes[k].content.doc /\ writes[k].content.refresh.delay = 0

\* C13: with build.redirects on, what is emitted for a Response with a 3xx
\* status and a Location is the redirect document and never the body of the
\* Response: generatePath goes on to write it, and its meta refresh, its
\* canonical link and its anchor all point at the value of the Location
\* header, with a robots noindex meta tag.
C13_RedirectDocument ==
    /\ [](\A e \in Emitted :
             GivesRedirect(e.route) =>
                /\ build.redirects
                /\ e.content.doc
                /\ e.content # BodyFile(RenderResult(e.route).response.body)
                /\ Target(e.route) # ""
                /\ e.content.refresh.url = Target(e.route)
                /\ e.content.canonical = Target(e.route)
                /\ e.content.anchor = Target(e.route)
                /\ e.content.robots = "noindex")
    /\ [][\A call \in inflight :
             (/\ call.stage = "render"
              /\ call \notin inflight'
              /\ build.redirects
              /\ GivesRedirect(call.route)
              /\ Target(call.route) # "") =>
                 \E c \in inflight' :
                    /\ c.route = call.route /\ c.pathname = call.pathname
                    /\ c.stage = "write"
                    /\ c.body.doc]_vars

\* The document written for a page that gave a 301 with a body and a
\* Location of /login.
C13_Witness ==
    \E f \in disk :
        /\ build.routes[f.route].type = "page"
        /\ RenderResult(f.route).response.status = 301
        /\ RenderResult(f.route).response.body # EmptyBody
        /\ f.content.doc
        /\ f.content.canonical = "/login"

\* The writeFile calls made for route i, in order.
WritesOf(log, i) == SelectSeq(log, LAMBDA w : w.route = i)

\* The build with build.redirects off has ended, after the build of the
\* same project with build.redirects on.
BothBuilt == ~build.redirects /\ gpc \in {"done", "failed"}

\* C14: with build.redirects off no file is written for a redirect route,
\* and the files written for every route whose render is not a redirect are
\* those written for it by the build with build.redirects on.
C14_RedirectsOff ==
    ~build.redirects =>
        /\ \A e \in Emitted : build.routes[e.route].type # "redirect"
        /\ BothBuilt =>
              \A i \in 1..Len(build.routes) :
                 ~GivesRedirect(i) => WritesOf(writes, i) = WritesOf(previous.writes, i)

\* C15: when the project builds to the end with build.redirects on and with
\* build.redirects off, the build with it off has rendered the same paths
\* in the same order, has recorded the same paths as built, and has recorded
\* the same redirect target on every route.
C15_SideEffectsKept ==
    (BothBuilt /\ gpc = "done" /\ previous.ended = "done") =>
        /\ rendered = previous.rendered
        /\ builtPaths = previous.builtPaths
        /\ \A i \in 1..Len(build.routes) :
              routeFacts[i].redirect = previous.routeFacts[i].redirect

\* The generatePath call for this path of this route has completed.
Completed(r) ==
    /\ gpc # "idle"
    /\ ~\E c \in inflight : c.route = r.route /\ c.pathname = r.pathname

\* C16: once generatePath has completed for a path whose render gave a
\* Response with a 3xx status and no Location, the build has failed with
\* RedirectWithNoLocation and no redirect document has been written for
\* the path.
C16_LocationRequired ==
    \A k \in 1..Len(rendered) :
        (/\ Completed(rendered[k])
         /\ GivesRedirect(rendered[k].route)
         /\ Target(rendered[k].route) = "") =>
            /\ gpc = "failed"
            /\ buildError.error = "RedirectWithNoLocation"
            /\ ~\E j \in 1..Len(writes) :
                  /\ writes[j].route = rendered[k].route
                  /\ writes[j].pathname = rendered[k].pathname

\* The paths route i can be generated for.
PathsOf(i) ==
    IF RoutePathname(build.routes[i]) # {} THEN RoutePathname(build.routes[i])
    ELSE {StaticPaths[k] : k \in 1..Len(StaticPaths)}

\* The routes of the project that can produce the file.
Producers(file) ==
    {i \in 1..Len(build.routes) :
        \E p \in PathsOf(i) : OutFile(p, build.routes[i].type) = file}

\* C17: when generatePages has returned, every file that two or more routes
\* of the project can produce holds the output of the route that the route
\* table gives for its path.
C17_CollisionPolicy ==
    gpc = "done" =>
        \A f \in disk :
            Cardinality(Producers(f.file)) >= 2 =>
                f.route = MatchRoute(f.pathname, build.routes)

\* The render of route i throws.
Throws(i) == RenderResult(i).kind = "throw"

\* C18: once generatePath has completed for a path whose render threw, the
\* build has failed with that error, carrying the component of the route as
\* its id; that path is the last one rendered, nothing has been written for
\* it, and a failed build renders nothing more and writes nothing more.
C18_FailFast ==
    /\ [](\A k \in 1..Len(rendered) :
             (Completed(rendered[k]) /\ Throws(rendered[k].route)) =>
                /\ gpc = "failed"
                /\ buildError = [error |-> "RenderError",
                                 id |-> build.routes[rendered[k].route].component]
                /\ k = Len(rendered)
                /\ inflight = {}
                /\ ~\E j \in 1..Len(writes) :
                      /\ writes[j].route = rendered[k].route
                      /\ writes[j].pathname = rendered[k].pathname)
    /\ [][(gpc = "failed" /\ gpc' # "idle") =>
             /\ gpc' = "failed"
             /\ rendered' = rendered
             /\ writes' = writes
             /\ disk' = disk
             /\ builtPaths' = builtPaths]_vars

\* The build has failed at the first path of the first of two routes, after
\* which neither its second path nor the second route has been rendered.
C18_Witness ==
    /\ gpc = "failed"
    /\ buildError.error = "RenderError"
    /\ Len(build.order) = 2
    /\ Len(paths) = 2
    /\ rendered = <<[route |-> build.order[1], pathname |-> paths[1]]>>
    /\ disk = {}

\* C19: at most one generatePath call is between its start and the end of
\* its writeFile, so that no two writes to one file are under way together.
C19_WritesSerialized ==
    /\ Cardinality(inflight) <= 1
    /\ \A c, d \in inflight :
          (/\ c.stage = "write" /\ d.stage = "write"
           /\ OutFile(c.pathname, build.routes[c.route].type)
                 = OutFile(d.pathname, build.routes[d.route].type)) => c = d

\* The file of a path is on disk and the second route is about to write
\* the same file.
C19_Witness ==
    \E c \in inflight :
        /\ c.stage = "write"
        /\ \E f \in disk :
              /\ f.file = OutFile(c.pathname, build.routes[c.route].type)
              /\ f.route # c.route

\* C23: with a server-like output no page or endpoint route whose prerender
\* flag is false is rendered or written, and when no route is prerendered
\* nothing at all is generated: no render, no write, and no path recorded
\* as built.
C23_OnlyPrerendered ==
    build.ssr =>
        /\ \A k \in 1..Len(rendered) :
              build.routes[rendered[k].route].type # "redirect" =>
                 build.routes[rendered[k].route].prerender
        /\ \A e \in Emitted :
              build.routes[e.route].type # "redirect" => build.routes[e.route].prerender
        /\ (~\E i \in 1..Len(build.routes) : build.routes[i].prerender) =>
              /\ rendered = <<>>
              /\ writes = <<>>
              /\ inflight = {}
              /\ disk = {}
              /\ builtPaths = {}
              /\ gpc \in {"idle", "done"}

\* A server-like build of a prerendered page and a page that is not has
\* ended: the first has been written, the second has not been rendered.
C23_Witness ==
    /\ build.ssr
    /\ gpc = "done"
    /\ Len(build.routes) = 2
    /\ build.routes[1].type = "page" /\ ~build.routes[1].prerender
    /\ build.routes[2].type = "page" /\ build.routes[2].prerender
    /\ \A k \in 1..Len(rendered) : rendered[k].route = 2
    /\ \E f \in disk : f.route = 2

\* C28: during a build builtPaths only grows and holds every path that has
\* been rendered or written; and when generatePage takes the paths of a
\* route, a path of the route that is already in builtPaths and for which
\* the route table gives another route is not among them, so that it is
\* neither rendered nor written for this route.
C28_CollisionSkipping ==
    /\ [](/\ \A k \in 1..Len(rendered) : rendered[k].pathname \in builtPaths
          /\ \A e \in Emitted : e.pathname \in builtPaths)
    /\ [][(gpc \in {"pages", "paths"} /\ gpc' # "idle") => builtPaths \subseteq builtPaths']_vars
    /\ [][(gpc = "pages" /\ gpc' = "paths") =>
             LET i == build.order[cursor.page]
             IN \A p \in PathsOf(i) :
                   (p \in builtPaths /\ MatchRoute(p, build.routes) # i) =>
                      \A k \in 1..Len(paths') : paths'[k] # p]_vars

\* ---------------------------------------------------- claims of renderChild

\* The plain strings among a child, its items and what it returns.
RECURSIVE StringLeaves(_)
StringLeaves(c) ==
    IF c.t = "string" THEN {c}
    ELSE IF c.t \in {"array", "iterable"}
    THEN UNION {StringLeaves(c.items[k]) : k \in 1..Len(c.items)}
    ELSE IF c.t = "function" THEN StringLeaves(c.returns)
    ELSE IF c.t = "promise" THEN StringLeaves(c.value)
    ELSE {}

\* The chunk is the child itself: nothing was done to it.
WrittenAsIs(w) == w.chunk = w.child

\* A plain string was written escaped and marked: no < is left in it.
WrittenEscaped(w) ==
    /\ w.chunk.t = "html"
    /\ w.chunk.s = EscapeHTML(w.child.s)
    /\ \A i \in 1..Len(w.chunk.s) : w.chunk.s[i] # "<"
    /\ Len(w.chunk.s) >= Len(w.child.s)

\* C20, as stated: every plain string is written escaped and marked, and
\* only an HTMLString or a SlotString is written as it is.
C20_Original ==
    \A k \in 1..Len(destination) :
        LET w == destination[k]
        IN /\ w.child.t = "string" => WrittenEscaped(w)
           /\ WrittenAsIs(w) => w.child.t \in {"html", "slot"}

\* C20, amended: no chunk written is a plain string; every plain string of
\* the child is written, escaped first and marked after; of the strings
\* only an HTMLString or a SlotString is written as it is, and the other
\* values written as they are are not strings: binary views, numbers and
\* whatever else reaches the last branch.
C20_StringsEscaped ==
    /\ \A k \in 1..Len(destination) :
          LET w == destination[k]
          IN /\ w.chunk.t # "string"
             /\ w.child.t = "string" => WrittenEscaped(w)
             /\ WrittenAsIs(w) => w.child.t \in {"html", "slot", "binary", "number", "boolean"}
    /\ pending = <<>> =>
          StringLeaves(child) \subseteq {destination[k].child : k \in 1..Len(destination)}

\* An array of a plain string and a SlotString has been rendered: the
\* string escaped, the SlotString as it is.
C20_Witness ==
    /\ pending = <<>>
    /\ Len(destination) = 2
    /\ destination[1].child = PlainString(<<"<", "a">>)
    /\ destination[1].chunk = HTMLString(<<"&", "l", "t", ";", "a">>)
    /\ destination[2].child = SlotString(<<"<">>)
    /\ destination[2].chunk = SlotString(<<"<">>)

Zero == [t |-> "number", n |-> 0]

\* C21: a false, null or undefined child is dropped with no write to the
\* destination, and the number 0 is emitted: the call for a child equal to 0
\* makes exactly one write, of the 0 itself.
C21_FalsyDropped ==
    /\ [](/\ \A k \in 1..Len(destination) : destination[k].child.t # "falsy"
          /\ (child = Zero /\ pending = <<>>) =>
                destination = <<[child |-> Zero, chunk |-> Zero]>>)
    /\ [][(pending # <<>> /\ pending' # pending) =>
             /\ Head(pending).t = "falsy" => destination' = destination
             /\ Head(pending) = Zero =>
                   destination' = Append(destination, [child |-> Zero, chunk |-> Zero])]_vars

\* An array of null and 0 has been rendered: the only write is the 0.
C21_Witness ==
    /\ child = [t |-> "array", items |-> <<[t |-> "falsy", v |-> "null"], Zero>>]
    /\ pending = <<>>
    /\ destination = <<[child |-> Zero, chunk |-> Zero]>>

\* The writes of a child in document order: depth first, left to right.
RECURSIVE Flatten(_)
Flatten(c) ==
    LET RECURSIVE All(_)
        All(items) == IF items = <<>> THEN <<>>
                      ELSE Flatten(Head(items)) \o All(Tail(items))
    IN IF c.t = "promise" THEN Flatten(c.value)
       ELSE IF c.t = "function" THEN Flatten(c.returns)
       ELSE IF c.t \in {"array", "iterable"} THEN All(c.items)
       ELSE IF c.t = "instance"
       THEN [k \in 1..Len(c.chunks) |-> [child |-> c, chunk |-> c.chunks[k]]]
       ELSE IF c.t = "string" THEN <<[child |-> c, chunk |-> HTMLString(EscapeHTML(c.s))]>>
       ELSE IF c.t = "falsy" THEN <<>>
       ELSE <<[child |-> c, chunk |-> c]>>

\* C22: the writes to the destination are the depth-first, left-to-right
\* flattening of the child, whatever the order in which its promises
\* resolve: at every moment what has been written is a prefix of the
\* flattening, and it is the whole of it when renderChild is done.
C22_DocumentOrder ==
    /\ Len(destination) <= Len(Flatten(child))
    /\ destination = SubSeq(Flatten(child), 1, Len(destination))
    /\ pending = <<>> => destination = Flatten(child)

\* The promise of the second sibling resolved before the promise of the
\* first, and the first sibling was written first.
C22_Witness ==
    /\ child = [t |-> "array", items |-> <<PromiseOf(1, PlainString(<<"a">>)),
                                           PromiseOf(2, SlotString(<<"<">>))>>]
    /\ resolved = <<2, 1>>
    /\ pending = <<>>
    /\ Len(destination) = 2
    /\ destination[1].child = PlainString(<<"a">>)
    /\ destination[2].child = SlotString(<<"<">>)

\* ------------------------------------------------- claims of matchRoute

\* The routes of the table that match the pathname looked up.
Hits == {i \in 1..Len(table) : PatternTest(table[i].pattern, lookup.pathname)}

\* The table in another order.
Reordered(f) == [i \in 1..Len(table) |-> table[f[i]]]

ShortCircuits(handler) == handler \in {"redirect", "respond"}

\* C25: when the onRequest handler returns its own Response without calling
\* next, tryRenderRoute gives that Response and nothing of the page: in
\* App.render the call never ends in the catch block, its result is the
\* handler's Response, and that Response is what render returns; in the
\* build, with build.redirects on, a 302 of the handler is written as the
\* redirect document for its Location and recorded on the route, as for a
\* redirect of the page, whatever the page would have done, and with
\* build.redirects off nothing is written for it.
C25_ShortCircuit ==
    /\ []((pc \in {"result", "done"} /\ calls # <<>> /\ ShortCircuits(calls[1].onRequest)) =>
             /\ Len(calls) = 1
             /\ result = [kind |-> "response",
                          response |-> MiddlewareResponse(calls[1].onRequest)]
             /\ pc = "done" =>
                   outcome = Returned(MarkSent(MiddlewareResponse(calls[1].onRequest))))
    /\ [][(pc = "rendering" /\ ShortCircuits(calls[Len(calls)].onRequest)) =>
             pc' \in {"rendering", "result"}]_vars
    /\ [](\A e \in Emitted :
             build.middleware[e.route] = "redirect" =>
                /\ build.redirects
                /\ e.content = RedirectDocument(302, "/test", e.pathname))
    /\ [](\A k \in 1..Len(rendered) :
             (/\ Completed(rendered[k])
              /\ build.middleware[rendered[k].route] = "redirect"
              /\ build.redirects) =>
                /\ routeFacts[rendered[k].route].redirect = "/test"
                /\ \E j \in 1..Len(writes) :
                      /\ writes[j].route = rendered[k].route
                      /\ writes[j].pathname = rendered[k].pathname
                      /\ writes[j].content =
                            RedirectDocument(302, "/test", rendered[k].pathname))

\* The redirect document for /test is on disk for a page whose handler
\* redirected and whose own render would have thrown.
C25_Witness ==
    \E f \in disk :
        /\ build.middleware[f.route] = "redirect"
        /\ build.behaviour[f.route].kind = "throw"
        /\ f.content.doc
        /\ f.content.refresh = [delay |-> 2, url |-> "/test"]

\* ----------------------------------------------- claims of syncInternal

\* There is an error while the content collection types are generated:
\* the first of the steps that fails.
SyncError ==
    \/ sync.input.generator # NoThrown
    \/ sync.input.init.thrown # NoThrown
    \/ sync.input.config.status = "error"

\* C27: syncInternal returns the exit signal: 0 when the types are generated
\* or there is no content directory, 1 when there is an error while the
\* types are generated.
C27_ExitSignal ==
    sync.pc = "settled" =>
        /\ sync.exit.kind = "returned"
        /\ sync.exit.value = IF SyncError THEN 1 ELSE 0

\* ---------------------------------------------- claims of NodeApp.render

\* The req is a Node request whose body property is not passed on.
NativeNoBody ==
    /\ node.pc # "idle"
    /\ node.req.kind = "IncomingMessage"
    /\ ~(node.req.body.type \in {"string", "object"} /\ node.req.body.bytes # <<>>)

\* The events of the given name heard so far, by position.
HeardAt(name) == {k \in 1..Len(node.heard) : node.heard[k].event = name}

\* 'error' was heard, and no 'end' before it.
ErrorFirst == \E k \in HeardAt("error") : \A j \in HeardAt("end") : k < j

\* The chunks heard, one after the other.
RECURSIVE ChunksOf(_)
ChunksOf(heard) ==
    IF heard = <<>> THEN <<>>
    ELSE (IF Head(heard).event = "data" THEN Head(heard).chunk ELSE <<>>)
         \o ChunksOf(Tail(heard))

\* C30: for a native Node request with no pre-parsed body the render is
\* started at most once, only after 'end' has been heard with no 'error'
\* before it, with no body for GET and HEAD and otherwise with the chunks
\* heard, in the order they arrived; once 'end' has been heard first nothing
\* but the start of the render follows the wait; and if 'error' is heard
\* first the promise render returned is rejected and no render is started.
C30_RenderAfterEnd ==
    /\ [](NativeNoBody =>
             /\ Len(node.renders) <= 1
             /\ node.renders # <<>> =>
                   /\ HeardAt("end") # {}
                   /\ ~ErrorFirst
                   /\ node.renders[1].body =
                         IF node.req.method \in {"", "GET", "HEAD"} THEN NullBody
                         ELSE Bytes(ChunksOf(node.heard))
             /\ ErrorFirst => node.pc = "rejected" /\ node.renders = <<>>
             /\ (HeardAt("end") # {} /\ ~ErrorFirst) => node.pc \in {"listening", "rendering"})
    /\ [][(NativeNoBody /\ node.pc = "rendering") => node'.renders = node.renders]_vars

\* A POST whose stream gave two chunks and then 'end' is being rendered
\* with the two chunks as its body.
C30_Witness ==
    /\ NativeNoBody
    /\ node.req.method = "POST"
    /\ node.pc = "rendering"
    /\ Cardinality(HeardAt("data")) = 2
    /\ node.renders = <<[method |-> "POST", body |-> Bytes(<<"x", "y", "z">>)]>>

\* ------------------------------------------- further claims of App.render

\* The call returned out of #renderError.
ReturnedByFallback == errArgs.status # 0

\* C32: a Response returned by render carries the sent marker exactly when
\* it is the Response of a page or redirect route whose status is neither
\* 404 nor 500, returned without a fallback, or the empty-body Response
\* #renderError builds itself; the Response of an endpoint and a fallback
\* Response rendered or fetched from the error page carry no marker.
C32_SentMarker ==
    (pc = "done" /\ outcome.kind = "returned") =>
        (outcome.response.sent <=>
            \/ /\ ~ReturnedByFallback
               /\ Routes[routeData].type \in {"page", "redirect"}
               /\ result.kind = "response"
               /\ result.response.status \notin {404, 500}
            \/ /\ ReturnedByFallback
               /\ ~Happened("fetch")
               /\ renderState.fallback # "Completed"
               /\ outcome.response.body = EmptyBody)

\* An endpoint's Not-Found answer has been replaced by the empty fallback,
\* which is marked sent, and another endpoint Response would not have been.
C32_Witness ==
    /\ pc = "done"
    /\ ReturnedByFallback
    /\ errArgs.hasResponse
    /\ result.kind = "endpoint"
    /\ outcome.kind = "returned"
    /\ outcome.response.sent
    /\ outcome.response.body = EmptyBody

\* C36: for an endpoint route, render enters the 404 fallback exactly when
\* the endpoint's Response has the header X-Astro-Response: Not-Found; any
\* other Response of the endpoint, whatever its status, is the Response
\* render returns, unmarked and unmerged.
C36_EndpointNotFound ==
    (pc \notin {"idle", "load", "tryRender", "rendering", "caught", "result"}
     /\ result.kind = "endpoint") =>
        IF HeaderGet(result.response.headers, "x-astro-response") = "Not-Found"
        THEN errArgs = [status |-> 404, routeData |-> routeData,
                        response |-> result.response, hasResponse |-> TRUE]
        ELSE /\ ~ReturnedByFallback
             /\ ~Happened("renderError")
             /\ pc = "done"
             /\ outcome = Returned(result.response)

\* An endpoint answered 500 without the header and render returned that
\* Response, although the route table has a /500 page.
C36_Witness ==
    /\ pc = "done"
    /\ result.kind = "endpoint"
    /\ result.response.status = 500
    /\ ErrorRouteFor(500) # 0
    /\ outcome = Returned(result.response)

\* The tryRenderRoute calls of this render that were given a middleware.
WithMiddleware == {i \in 1..Len(calls) : calls[i].onRequest # "none"}

\* C33: throughout a render call, the tryRenderRoute call for the matched
\* route is given the onRequest of its module and the call for the 404/500
\* fallback page is given none, so at most one call of a request runs the
\* middleware, and the step that starts the fallback render never adds one.
C33_MiddlewareMainOnly ==
    /\ [](/\ \A i \in MainCalls : calls[i].onRequest \in OnRequest(Routes[calls[i].mod])
          /\ \A i \in FallbackCalls : calls[i].onRequest = "none"
          /\ WithMiddleware \subseteq MainCalls
          /\ Cardinality(WithMiddleware) <= 1)
    /\ [][pc = "errRender" => WithMiddleware' = WithMiddleware]_vars

\* The middleware let the request of a page through, the page answered 404
\* and the fallback page has been rendered without middleware.
C33_Witness ==
    /\ pc = "done"
    /\ Len(calls) = 2
    /\ calls[1].for = "main" /\ calls[1].onRequest = "next"
    /\ calls[2].for = "fallback" /\ calls[2].onRequest = "none"
    /\ result.response.status = 404
    /\ renderState.fallback = "Completed"

\* What render attaches to the request for the locals argument it was given.
AttachedFor(loc) == IF loc = "undefined" THEN "fresh" ELSE "supplied"

\* C34: throughout a render call the request carries locals exactly when
\* the call has a route (supplied or matched), and then the object supplied
\* or a fresh empty one; they are attached before the module is loaded and
\* before any tryRenderRoute call, and are not attached again; on the
\* no-match path the 404 fallback runs with nothing attached by the call.
C34_LocalsOnceRouteKnown ==
    /\ [](pc # "idle" =>
            /\ request.clientLocals =
                  IF routeData # 0 THEN AttachedFor(locals) ELSE "unset"
            /\ pc = "load" => calls = <<>> /\ events = <<>>)
    /\ [][pc \notin {"idle", "done"} => request' = request]_vars

\* No route matched, the /404 page has been rendered, and the locals the
\* caller supplied are not on the request.
C34_Witness ==
    /\ pc = "done"
    /\ NoMatch
    /\ locals = "supplied"
    /\ request.clientLocals = "unset"
    /\ renderState.fallback = "Completed"
    /\ Len(calls) = 1

\* The context #createRenderContext builds for a route of the table that is
\* not an endpoint: the scripts and styles of its entry in the side table.
ContextFromSideTable(i) ==
    LET info == CHOOSE x \in routeInfo : x.routeData = Routes[i]
    IN [scripts |-> ContextScripts(info.scripts),
        styles |-> CreateStylesheetElementSet(info.styles)]

\* C38: the tryRenderRoute call of the fallback page runs the module of the
\* /404 or /500 route; when the request has a route, its render context has
\* that route and the scripts and styles of that route's RouteInfo (none for
\* an endpoint route), and only when no route matched has it the fallback
\* route and the scripts and styles of the fallback route's RouteInfo.
C38_FallbackContext ==
    \A i \in FallbackCalls :
        LET c == calls[i]
            from == IF routeData # 0 THEN routeData ELSE errorRoute
        IN /\ c.mod = errorRoute
           /\ errorRoute = ErrorRouteFor(errArgs.status)
           /\ c.route = from
           /\ IF Routes[from].type = "endpoint"
              THEN c.scripts = {} /\ c.styles = {}
              ELSE /\ c.scripts = ContextFromSideTable(from).scripts
                   /\ c.styles = ContextFromSideTable(from).styles

\* The page of /a answered 404 and the /404 page has been rendered with the
\* route, scripts and styles of /a, which are not those of /404.
C38_Witness ==
    /\ pc = "done"
    /\ routeData # 0
    /\ Routes[routeData].component = "a.astro"
    /\ Len(calls) = 2
    /\ calls[2].for = "fallback"
    /\ Routes[calls[2].mod].component = "404.astro"
    /\ calls[2].route = routeData
    /\ calls[2].styles = {[props |-> "stylesheet", children |-> "a.astro"]}
    /\ calls[2].styles # ContextFromSideTable(calls[2].mod).styles
    /\ [props |-> "module", children |-> "a.astro"] \in calls[2].scripts

\* ------------------------------------------- claims of the App's setters

\* The routes App.match can return.
Matchable == {Match(req) : req \in Requests} \ {0}

\* C35: whatever operations the App has gone through, every route match
\* can return has an entry in the side table, and render never fails on a
\* missing RouteInfo.
C35_SideTableCovers ==
    /\ \A i \in Matchable : RouteInfoGet(Routes[i]) # {}
    /\ outcome # Rejected("TypeError")

\* ------------------------------------------------ claims of removeBase

\* The pathname is the base, or the base followed by a slash and a rest.
UnderBase(base, pathname) ==
    \/ pathname = base
    \/ StartsWith(pathname, RemoveTrailingForwardSlash(base) \o <<"/">>)

\* What follows the base in the pathname, without a leading slash.
RestAfter(base, pathname) ==
    LET rest == Slice(pathname, Len(RemoveTrailingForwardSlash(base)))
    IN IF rest # <<>> /\ rest[1] = "/" THEN Tail(rest) ELSE rest

\* C39: removeBase gives a pathname under the base what follows the base,
\* without a leading slash, and gives back unchanged a pathname that is
\* not under the base, one that only begins with the characters of the base
\* included. (A pathname that is the base without its trailing slash is
\* left to either answer.)
C39_StripsOnlyUnderBase ==
    removal.pc = "returned" =>
        IF UnderBase(removal.base, removal.pathname)
        THEN removal.result = RestAfter(removal.base, removal.pathname)
        ELSE \/ removal.pathname = RemoveTrailingForwardSlash(removal.base)
             \/ removal.result = removal.pathname

\* ------------------------------------------------ claims of generatePath

\* The generatePath calls that end in this step without going on to write.
ExitsEarly(call) ==
    /\ call \in inflight
    /\ call.stage = "render"
    /\ ~\E c \in inflight' : c.route = call.route /\ c.pathname = call.pathname

C31_SkipOnlyWhenSame ==
    (hmr.pc = "returned" /\ EndsWithAstro(hmr.file) /\ hmr.returned.at = 95) =>
        /\ hmr.oldResult.scope = hmr.newResult.scope
        /\ hmr.oldResult.css = hmr.newResult.css

\* The files of ctx.modules and of their direct importers.
Affected == {m.file : m \in hmr.modules} \cup UNION {m.importers : m \in hmr.modules}

\* handleHotUpdate has run to its end: it returned the modules to update.
HmrCompleted == hmr.pc = "returned" /\ hmr.returned.at \in {147, 167}

\* C40, as stated: after a call without early return the changed file is
\* not cached, or the change is a style-only change and the cache holds its
\* fresh result, and no other file of the modules or of their importers is
\* cached.
C40_Original ==
    HmrCompleted =>
        /\ \/ ~IsCached(hmr.cache, hmr.file)
           \/ /\ hmr.isStyleOnlyChange
              /\ CacheEntry(hmr.file, hmr.now, "new") \in hmr.cache
        /\ \A f \in Affected \ {hmr.file} : ~IsCached(hmr.cache, f)

\* C40: after a call without early return the cache holds nothing compiled
\* before the change for the changed file, the modules or their importers:
\* the changed file is not cached or the cache holds its fresh result, the
\* latter only after a style-only change or when ctx.modules is empty, and
\* no other file of the modules or of their importers is cached.
C40_NoStaleEntry ==
    HmrCompleted =>
        /\ \A e \in hmr.cache : e.file \in Affected \cup {hmr.file} => e.from = "new"
        /\ IsCached(hmr.cache, hmr.file) =>
              /\ {e \in hmr.cache : e.file = hmr.file} = {CacheEntry(hmr.file, hmr.now, "new")}
              /\ hmr.isStyleOnlyChange \/ hmr.modules = {}
        /\ \A f \in Affected \ {hmr.file} : ~IsCached(hmr.cache, f)

\* After a style-only change of a component that was cached, as was the
\* component that imports it, the cache holds the fresh result of the first
\* and nothing for the second.
C40_Witness ==
    /\ HmrCompleted
    /\ hmr.returned.at = 147
    /\ \E e \in hmr.before : e.file = hmr.file /\ e.result # hmr.now
    /\ \E e \in hmr.before : e.file \in Affected \ {hmr.file}
    /\ hmr.cache = {CacheEntry(hmr.file, hmr.now, "new")}

====
